---- MODULE Spec2Model ----
(***************************************************************************)
(* noisemaker: the activity log store, the CSV codec and the activity      *)
(* classifiers of main(), modelled at the level of the bytes of the files  *)
(* the program reads and writes.  A string is a sequence of one-character  *)
(* strings, a file is the sequence of its bytes.                           *)
(***************************************************************************)
EXTENDS Integers, Sequences, FiniteSets, TLC

\* ------------------------------------------------------------------ bounds
\* invocations of the tool in one behaviour of Spec, of SpecFiles and of
\* SpecAppend
MaxRuns == 2
MaxFileRuns == 2
MaxAppendRuns == 3
\* lines the spawned process writes to its standard output in SpecExec
MaxLines == 2
\* invocations in one behaviour of SpecSend and of SpecRecord
MaxSendRuns == 2
MaxRecordRuns == 2
\* the bytes a pipe holds before a write to it blocks (65536 on Linux), and
\* bufio.MaxScanTokenSize (64 * 1024), both scaled down
PipeCapacity == 2
MaxScanTokenSize == 2

\* ------------------------------------------------------------- environment
\* os.Getpid() of the tool and the pid the kernel gives a spawned child
currentProcessId == 7
childPid == 9
\* runtime.GOOS, user.Current().Username, os.Executable()
currentOS == <<"l", "i", "n", "u", "x">>
currentUsername == <<"u">>
currentProcessName == <<"/", "n", "m">>

NL == "\n"
COMMA == ","
BSLASH == "\\"
QUOTE == "\""
AT == "@"

\* ----------------------------------------------------------------- strings
RECURSIVE Concat(_)
\* strings.Join(parts, ""): the concatenation of a list of strings
Concat(parts) ==
    IF parts = <<>> THEN <<>> ELSE Head(parts) \o Concat(Tail(parts))

RECURSIVE Join(_, _)
\* strings.Join(parts, sep)
Join(parts, sep) ==
    IF parts = <<>> THEN <<>>
    ELSE IF Len(parts) = 1 THEN parts[1]
    ELSE parts[1] \o sep \o Join(Tail(parts), sep)

RECURSIVE ReplaceAll(_, _, _)
\* strings.ReplaceAll(text, old, new) for a one-character old
ReplaceAll(text, old, new) ==
    IF text = <<>> THEN <<>>
    ELSE (IF Head(text) = old THEN new ELSE <<Head(text)>>)
         \o ReplaceAll(Tail(text), old, new)

\* whether p is a prefix of s
IsPrefix(p, s) ==
    /\ Len(p) <= Len(s)
    /\ SubSeq(s, 1, Len(p)) = p

Digits == <<"0", "1", "2", "3", "4", "5", "6", "7", "8", "9">>

RECURSIVE ItoaNat(_)
ItoaNat(n) ==
    IF n < 10 THEN <<Digits[n + 1]>>
    ELSE ItoaNat(n \div 10) \o <<Digits[(n % 10) + 1]>>

\* strconv.Itoa
Itoa(n) ==
    IF n < 0 THEN <<"-">> \o ItoaNat(0 - n) ELSE ItoaNat(n)

DigitVal(c) ==
    CHOOSE d \in 0..9 : Digits[d + 1] = c

IsDigit(c) ==
    \E d \in 0..9 : Digits[d + 1] = c

RECURSIVE AtoiNat(_, _)
AtoiNat(s, acc) ==
    IF s = <<>> THEN acc
    ELSE AtoiNat(Tail(s), acc * 10 + DigitVal(Head(s)))

\* strconv.Atoi: an optional sign and at least one decimal digit
AtoiOk(s) ==
    LET body == IF s # <<>> /\ Head(s) \in {"+", "-"} THEN Tail(s) ELSE s
    IN  /\ body # <<>>
        /\ \A i \in 1..Len(body) : IsDigit(body[i])

Atoi(s) ==
    IF ~AtoiOk(s) THEN 0
    ELSE IF Head(s) = "-" THEN 0 - AtoiNat(Tail(s), 0)
    ELSE IF Head(s) = "+" THEN AtoiNat(Tail(s), 0)
    ELSE AtoiNat(s, 0)

\* ------------------------------------------------------------------- codec
HeaderStr ==
    <<"t", "i", "m", "e", "s", "t", "a", "m", "p", ",", "a", "c", "t", "i", "v", "i", "t", "y", ",", "o", "s", ",", "u", "s", "e", "r", "n", "a", "m", "e", ",", "p", "r", "o", "c", "e", "s", "s", "N", "a", "m", "e", ",", "p", "r", "o", "c", "e", "s", "s", "C", "m", "d", ",", "p", "i", "d", ",", "p", "a", "t", "h", ",", "s", "t", "a", "t", "u", "s", ",", "m", "e", "t", "h", "o", "d", ",", "s", "o", "u", "r", "c", "e", "A", "d", "d", "r", ",", "s", "o", "u", "r", "c", "e", "P", "o", "r", "t", ",", "d", "e", "s", "t", "A", "d", "d", "r", ",", "d", "e", "s", "t", "P", "o", "r", "t", ",", "b", "y", "t", "e", "s", "S", "e", "n", "t", ",", "p", "r", "o", "t", "o", "c", "o", "l">>

isCSVHeaderStr(line) ==
    line = HeaderStr

\* new(ActivityLogEntry): every field at its zero value
NewActivityLogEntry ==
    [timestamp |-> <<>>, activity |-> <<>>, os |-> <<>>, username |-> <<>>,
     processName |-> <<>>, processCmd |-> <<>>, processId |-> 0,
     path |-> <<>>, status |-> <<>>, method |-> <<>>, sourceAddr |-> <<>>,
     sourcePort |-> 0, destAddr |-> <<>>, destPort |-> 0, bytesSent |-> 0,
     protocol |-> <<>>]

serializeToCSV(logInfo) ==
    << logInfo.timestamp, logInfo.activity, logInfo.os, logInfo.username,
       logInfo.processName, logInfo.processCmd, Itoa(logInfo.processId),
       logInfo.path, logInfo.status, logInfo.method, logInfo.sourceAddr,
       Itoa(logInfo.sourcePort), logInfo.destAddr, Itoa(logInfo.destPort),
       Itoa(logInfo.bytesSent), logInfo.protocol >>

\* the bytes writeLogEntry hands to WriteString
LogLine(entry) ==
    Join(serializeToCSV(entry), <<COMMA>>) \o <<NL>>

escapeRawText_CommasOnly(text) ==
    ReplaceAll(text, COMMA, <<BSLASH, COMMA>>)

escapeRawText(text) ==
    ReplaceAll(ReplaceAll(text, COMMA, <<BSLASH, COMMA>>), NL, <<BSLASH, "n">>)

escapeCommandString(cmd, args) ==
    escapeRawText(cmd \o <<" ">> \o Join(args, <<" ">>))

RECURSIVE SplitOn(_, _)
\* strings.Split on a one-character separator
SplitOn(text, sep) ==
    IF \A i \in 1..Len(text) : text[i] # sep THEN <<text>>
    ELSE LET k == CHOOSE i \in 1..Len(text) :
                      /\ text[i] = sep
                      /\ \A j \in 1..(i - 1) : text[j] # sep
         IN  <<SubSeq(text, 1, k - 1)>> \o SplitOn(SubSeq(text, k + 1, Len(text)), sep)

\* csv.Reader.Read on one line: ok is false for a syntax error (a quote inside
\* an unquoted field), fields is nil for an empty line (io.EOF); a comma
\* always ends a field, a backslash before it does not protect it
CsvRead(rowText) ==
    IF rowText = <<>> THEN [ok |-> TRUE, fields |-> <<>>]
    ELSE IF \E i \in 1..Len(rowText) : rowText[i] = QUOTE
         THEN [ok |-> FALSE, fields |-> <<>>]
    ELSE [ok |-> TRUE, fields |-> SplitOn(rowText, COMMA)]

\* splitCSVRow: (fields, err), fields nil on error and at io.EOF
splitCSVRow(rowText) ==
    LET r == CsvRead(rowText)
    IN  IF r.ok THEN [fields |-> r.fields, err |-> FALSE]
        ELSE [fields |-> <<>>, err |-> TRUE]

\* deserializeFromCSV: a row of fewer than 16 fields goes to check(), which
\* panics; a numeric field that does not parse becomes 0
deserializeFromCSV(row) ==
    IF Len(row) < 16 THEN [panic |-> TRUE, entry |-> NewActivityLogEntry]
    ELSE [panic |-> FALSE,
          entry |-> [timestamp |-> row[1], activity |-> row[2], os |-> row[3],
                     username |-> row[4], processName |-> row[5],
                     processCmd |-> row[6], processId |-> Atoi(row[7]),
                     path |-> row[8], status |-> row[9], method |-> row[10],
                     sourceAddr |-> row[11], sourcePort |-> Atoi(row[12]),
                     destAddr |-> row[13], destPort |-> Atoi(row[14]),
                     bytesSent |-> Atoi(row[15]), protocol |-> row[16]]]

\* bufio.Scanner over a file: the lines without their newline; a last line
\* without a newline is a line too, an empty rest is not
ScanLines(data) ==
    LET parts == SplitOn(data, NL)
    IN  IF parts[Len(parts)] = <<>> THEN SubSeq(parts, 1, Len(parts) - 1)
        ELSE parts

\* ------------------------------------------------------------------- files
\* an *os.File open for writing: the file's bytes, the offset of the next
\* write, whether O_APPEND moves every write to the end, and the strings
\* written through it so far
OpenHandle(data, append) ==
    [data |-> data, pos |-> 0, append |-> append, written |-> <<>>]

\* (*os.File).WriteString: bytes at the offset replace what was there, the
\* bytes after them stay; the file is never shortened
WriteString(f, s) ==
    LET at == IF f.append THEN Len(f.data) ELSE f.pos
        end == at + Len(s)
    IN  [f EXCEPT !.data = SubSeq(f.data, 1, at) \o s
                           \o SubSeq(f.data, end + 1, Len(f.data)),
                  !.pos = end,
                  !.written = Append(f.written, s)]

\* the state of a path of the file system: kind is "absent", "file", "dir"
\* or "stat_error" (os.Stat fails with an error other than not-exist);
\* access says whether the user may create, open for writing or remove it
AbsentPath(access) ==
    [kind |-> "absent", data |-> <<>>, access |-> access]

FilePath(data, access) ==
    [kind |-> "file", data |-> data, access |-> access]

DirPath ==
    [kind |-> "dir", data |-> <<>>, access |-> TRUE]

StatErrorPath ==
    [kind |-> "stat_error", data |-> <<>>, access |-> FALSE]

\* fileExists: os.Stat, false when the error is not-exist, else
\* !info.IsDir(); with any other error info is nil and IsDir() panics
fileExists(st) ==
    [panic |-> st.kind = "stat_error", exists |-> st.kind = "file"]

\* ------------------------------------------------------------- activities
\* createFile without the fileExists test: os.Create truncates the target
createFile_NoExistsCheck(st, contents, writeErr) ==
    IF st.kind = "dir" \/ ~st.access
    THEN [status |-> <<"e", "r", "r", "o", "r">>, err |-> TRUE, st |-> st, bytesWritten |-> 0]
    ELSE [status |-> <<"c", "r", "e", "a", "t", "e", "d">>, err |-> FALSE, st |-> FilePath(contents, st.access),
          bytesWritten |-> Len(contents)]

\* createFile: (status, err != nil, the path afterwards); writeErr is the
\* outcome of WriteString on the new file
createFile(st, contents, writeErr) ==
    IF fileExists(st).exists
    THEN [status |-> <<"e", "x", "i", "s", "t", "s">>, err |-> TRUE, st |-> st, bytesWritten |-> 0]
    ELSE IF st.kind = "dir" \/ ~st.access
    THEN [status |-> <<"e", "r", "r", "o", "r">>, err |-> TRUE, st |-> st, bytesWritten |-> 0]
    ELSE IF writeErr
    THEN [status |-> <<"e", "r", "r", "o", "r">>, err |-> TRUE, st |-> FilePath(<<>>, st.access),
          bytesWritten |-> 0]
    ELSE [status |-> <<"c", "r", "e", "a", "t", "e", "d">>, err |-> FALSE,
          st |-> FilePath(WriteString(OpenHandle(<<>>, FALSE), contents).data,
                          st.access),
          bytesWritten |-> Len(contents)]

\* updateFile without the fileExists test: os.OpenFile without O_CREATE
\* fails on a path that holds no file
updateFile_NoExistsCheck(st, contents, writeErr) ==
    IF st.kind # "file" \/ ~st.access \/ writeErr
    THEN [status |-> <<"e", "r", "r", "o", "r">>, err |-> TRUE, st |-> st, bytesWritten |-> 0]
    ELSE [status |-> <<"u", "p", "d", "a", "t", "e", "d">>, err |-> FALSE,
          st |-> FilePath(WriteString(OpenHandle(st.data, FALSE), contents).data,
                          st.access),
          bytesWritten |-> Len(contents)]

\* updateFile: the file is opened O_RDWR, without O_TRUNC, and the contents
\* are written from offset 0
updateFile(st, contents, writeErr) ==
    IF ~fileExists(st).exists
    THEN [status |-> <<"n", "o", "t", "_", "f", "o", "u", "n", "d">>, err |-> TRUE, st |-> st, bytesWritten |-> 0]
    ELSE IF ~st.access
    THEN [status |-> <<"e", "r", "r", "o", "r">>, err |-> TRUE, st |-> st, bytesWritten |-> 0]
    ELSE IF writeErr
    THEN [status |-> <<"e", "r", "r", "o", "r">>, err |-> TRUE, st |-> st, bytesWritten |-> 0]
    ELSE [status |-> <<"u", "p", "d", "a", "t", "e", "d">>, err |-> FALSE,
          st |-> FilePath(WriteString(OpenHandle(st.data, FALSE), contents).data,
                          st.access),
          bytesWritten |-> Len(contents)]

\* deleteFile reporting a removal that did not take place
deleteFile_KeepsFile(st) ==
    IF ~fileExists(st).exists
    THEN [status |-> <<"n", "o", "t", "_", "f", "o", "u", "n", "d">>, err |-> TRUE, st |-> st]
    ELSE IF ~st.access
    THEN [status |-> <<"e", "r", "r", "o", "r">>, err |-> TRUE, st |-> st]
    ELSE [status |-> <<"d", "e", "l", "e", "t", "e", "d">>, err |-> FALSE, st |-> st]

\* deleteFile
deleteFile(st) ==
    IF ~fileExists(st).exists
    THEN [status |-> <<"n", "o", "t", "_", "f", "o", "u", "n", "d">>, err |-> TRUE, st |-> st]
    ELSE IF ~st.access
    THEN [status |-> <<"e", "r", "r", "o", "r">>, err |-> TRUE, st |-> st]
    ELSE [status |-> <<"d", "e", "l", "e", "t", "e", "d">>, err |-> FALSE, st |-> AbsentPath(st.access)]

\* --------------------------------------------------------------- log store
\* the log file: kind is "absent" or "file"; access is "rw", "wo" (it cannot
\* be opened for reading) or "none" (it can be neither opened nor created)
LogFile(kind, data, access) ==
    [kind |-> kind, data |-> data, access |-> access]

\* what a bufio.Scanner reads from the nil *os.File that a failed
\* os.OpenFile returns: Read fails with ErrInvalid, no line is scanned
NilFileLines == <<>>

RECURSIVE ScanRest(_, _)
\* main, lines 126-143: the rows after the first; a row that does not
\* tokenize is skipped, a row deserializeFromCSV rejects panics inside it
ScanRest(lines, acc) ==
    IF lines = <<>> THEN [panic |-> FALSE, entries |-> acc]
    ELSE LET row == splitCSVRow(Head(lines))
             parsed == deserializeFromCSV(row.fields)
         IN  IF row.err THEN ScanRest(Tail(lines), acc)
             ELSE IF parsed.panic THEN [panic |-> TRUE, entries |-> acc]
             ELSE ScanRest(Tail(lines), Append(acc, parsed.entry))

\* main, lines 106-146: the first line is skipped when it is the header,
\* else it is decoded (a tokenizer error is only reported, the nil row
\* still goes to deserializeFromCSV); then the other rows
ScanLog(lines) ==
    IF lines = <<>> THEN [panic |-> FALSE, entries |-> <<>>]
    ELSE IF isCSVHeaderStr(Head(lines)) THEN ScanRest(Tail(lines), <<>>)
    ELSE LET parsed == deserializeFromCSV(splitCSVRow(Head(lines)).fields)
         IN  IF parsed.panic THEN [panic |-> TRUE, entries |-> <<>>]
             ELSE ScanRest(Tail(lines), <<parsed.entry>>)

\* main, lines 100-148: existingLogEntries.  The scan runs only when the
\* file exists and the read-only open FAILED (err != nil), and then over
\* the nil file
ReadExisting(log) ==
    LET activityLogFileExists == log.kind = "file"
        err == log.kind # "file" \/ log.access # "rw"
    IN  IF activityLogFileExists /\ err THEN ScanLog(NilFileLines)
        ELSE [panic |-> FALSE, entries |-> <<>>]

\* OpenLog with the append branch opened without os.O_APPEND
OpenLog_NoAppendFlag(log, overwrite) ==
    IF log.kind = "file"
    THEN [err |-> IF overwrite THEN log.access # "rw" ELSE log.access = "none",
          handle |-> OpenHandle(log.data, FALSE),
          writeHistoricalRecords |-> overwrite]
    ELSE [err |-> log.access = "none",
          handle |-> OpenHandle(<<>>, FALSE),
          writeHistoricalRecords |-> TRUE]

\* OpenLog with the overwrite branch opened with os.O_APPEND, as the append
\* branch is
OpenLog_OverwriteAppends(log, overwrite) ==
    IF log.kind = "file"
    THEN [err |-> IF overwrite THEN log.access # "rw" ELSE log.access = "none",
          handle |-> OpenHandle(log.data, TRUE),
          writeHistoricalRecords |-> overwrite]
    ELSE [err |-> log.access = "none",
          handle |-> OpenHandle(<<>>, FALSE),
          writeHistoricalRecords |-> TRUE]

\* main, lines 150-166: the open for writing; err is what check(err) sees
OpenLog(log, overwrite) ==
    LET activityLogFileExists == log.kind = "file"
    IN  IF activityLogFileExists /\ ~overwrite
        THEN \* os.O_APPEND | os.O_CREATE | os.O_WRONLY
             [err |-> log.access = "none",
              handle |-> OpenHandle(log.data, TRUE),
              writeHistoricalRecords |-> FALSE]
        ELSE IF activityLogFileExists /\ overwrite
        THEN \* os.O_RDWR | os.O_CREATE: no O_TRUNC
             [err |-> log.access # "rw",
              handle |-> OpenHandle(log.data, FALSE),
              writeHistoricalRecords |-> TRUE]
        ELSE \* os.Create: O_RDWR | O_CREATE | O_TRUNC
             [err |-> log.access = "none",
              handle |-> OpenHandle(<<>>, FALSE),
              writeHistoricalRecords |-> TRUE]

\* writeLogEntry
writeLogEntry(activityLogFile, activityLogEntry) ==
    WriteString(activityLogFile, LogLine(activityLogEntry))

RECURSIVE WriteEntries(_, _)
\* main, lines 176-178
WriteEntries(f, entries) ==
    IF entries = <<>> THEN f
    ELSE WriteEntries(writeLogEntry(f, Head(entries)), Tail(entries))

\* WriteHistory without the test of writeHistoricalRecords: the header is
\* written by every invocation
WriteHistory_Always(opened, existingLogEntries) ==
    WriteEntries(WriteString(opened.handle, HeaderStr \o <<NL>>), existingLogEntries)

\* main, lines 169-179: the header and the old records
WriteHistory(opened, existingLogEntries) ==
    IF opened.writeHistoricalRecords
    THEN WriteEntries(WriteString(opened.handle, HeaderStr \o <<NL>>),
                      existingLogEntries)
    ELSE opened.handle

\* -------------------------------------------------------------------- send
\* the first index of c in s, 0 when s has none
IndexByte(s, c) ==
    IF \E i \in 1..Len(s) : s[i] = c
    THEN CHOOSE i \in 1..Len(s) : s[i] = c /\ \A j \in 1..(i - 1) : s[j] # c
    ELSE 0

\* the last index of c in s, 0 when s has none
LastIndexByte(s, c) ==
    IF \E i \in 1..Len(s) : s[i] = c
    THEN CHOOSE i \in 1..Len(s) : s[i] = c /\ \A j \in (i + 1)..Len(s) : s[j] # c
    ELSE 0

\* s up to, and without, the first c; all of s when it has none
CutAt(s, c) ==
    IF IndexByte(s, c) = 0 THEN s ELSE SubSeq(s, 1, IndexByte(s, c) - 1)

\* strings.Index: the first index where sub occurs in s, 0 when nowhere
Index(s, sub) ==
    IF \E i \in 1..(Len(s) - Len(sub) + 1) : SubSeq(s, i, i + Len(sub) - 1) = sub
    THEN CHOOSE i \in 1..(Len(s) - Len(sub) + 1) :
             /\ SubSeq(s, i, i + Len(sub) - 1) = sub
             /\ \A j \in 1..(i - 1) : SubSeq(s, j, j + Len(sub) - 1) # sub
    ELSE 0

\* strings.Replace(s, old, new, 1): the first occurrence only; an empty old
\* matches at the start of s
ReplaceFirst(s, old, new) ==
    IF old = <<>> THEN new \o s
    ELSE IF Index(s, old) = 0 THEN s
    ELSE SubSeq(s, 1, Index(s, old) - 1) \o new
         \o SubSeq(s, Index(s, old) + Len(old), Len(s))

\* url.Parse("<scheme>://" + addr) and URL.Hostname(): the authority ends at
\* the first '#', '?' or '/', the host follows the last '@', a ':' in it
\* must be followed by digits only, and a control character anywhere or a
\* space or backslash in the authority is an error
ParseHost(addr, authority, hostport) ==
    LET colon == LastIndexByte(hostport, ":")
    IN  [err |-> \/ \E i \in 1..Len(addr) : addr[i] = NL
                 \/ \E i \in 1..Len(authority) : authority[i] \in {" ", BSLASH}
                 \/ /\ colon # 0
                    /\ \E i \in (colon + 1)..Len(hostport) : ~IsDigit(hostport[i]),
         hostname |-> CutAt(hostport, ":")]

ParseAuthority(addr, authority) ==
    ParseHost(addr, authority,
              SubSeq(authority, LastIndexByte(authority, AT) + 1, Len(authority)))

UrlParse(addr) ==
    ParseAuthority(addr, CutAt(CutAt(CutAt(addr, "#"), "?"), "/"))

isHttp(protocol) ==
    protocol \in {<<"h", "t", "t", "p">>, <<"h", "t", "t", "p", "s">>}

\* injectPortIntoAddress, lines 626-635, with the parsed URL
InjectPort(addr, port, u) ==
    IF u.err THEN [err |-> TRUE, addr |-> <<>>]
    ELSE [err |-> FALSE,
          addr |-> ReplaceFirst(addr, u.hostname, u.hostname \o <<":">> \o Itoa(port))]

\* injectPortIntoAddress
injectPortIntoAddress(addr, port, protocol) ==
    IF isHttp(protocol) THEN InjectPort(addr, port, UrlParse(addr))
    ELSE [err |-> TRUE, addr |-> <<>>]

makeErrorResponse(status, path) ==
    [sourceAddr |-> <<>>, sourcePort |-> 0, bytesSent |-> 0,
     status |-> status, path |-> path]

makeSuccessResponse(status, sourceAddr, sourcePort, bytesSent, path) ==
    [sourceAddr |-> sourceAddr, sourcePort |-> sourcePort,
     bytesSent |-> bytesSent, status |-> status, path |-> path]

\* the local end of the connection the transport reports to GotConn
localAddr == <<"1", "0", ".", "0", ".", "0", ".", "5">>
localPort == 5000

\* http.NewRequest accepts a method that is empty or made of token
\* characters; the request line has no place for a space or a comma
validMethod(method) ==
    \A i \in 1..Len(method) : method[i] \notin {" ", COMMA, NL, "/", ":", AT}

\* the outcomes of http.DefaultClient.Do with which a response came back:
\* whatever its status code, err is nil
Answered == {"ok", "http_404"}

\* the host and port of the URL path: what follows "//" and the user
\* information, up to the first '/', '?' or '#'
HostPort(path) ==
    LET rest == SubSeq(path, IndexByte(path, "/") + 2, Len(path))
        authority == CutAt(CutAt(CutAt(rest, "#"), "?"), "/")
    IN  SubSeq(authority, LastIndexByte(authority, AT) + 1, Len(authority))

\* the transport cannot dial: the host holds a colon of its own, or the port
\* of the URL is above 65535
DialFails(hostport) ==
    LET colon == LastIndexByte(hostport, ":")
    IN  \/ IndexByte(hostport, ":") # colon
        \/ /\ colon # 0
           /\ colon < Len(hostport)
           /\ AtoiNat(SubSeq(hostport, colon + 1, Len(hostport)), 0) > 65535

\* sendHttpMessage whose error response keeps the local end of the
\* connection
sendHttpMessage_KeepsSource(method, path, body, net) ==
    IF ~validMethod(method) \/ UrlParse(SubSeq(path, IndexByte(path, "/") + 2, Len(path))).err
    THEN [resp |-> makeErrorResponse(<<"i", "n", "v", "a", "l", "i", "d", "_", "r", "e", "q", "u", "e", "s", "t">>, path), err |-> TRUE]
    ELSE IF net \notin Answered \/ DialFails(HostPort(path))
    THEN [resp |-> makeSuccessResponse(<<"e", "r", "r", "o", "r">>, localAddr, localPort, 0, path),
          err |-> TRUE]
    ELSE [resp |-> makeSuccessResponse(<<"s", "e", "n", "t">>, localAddr, localPort, Len(body), path),
          err |-> FALSE]

\* sendHttpMessage reporting no byte of the body
sendHttpMessage_NoContentLength(method, path, body, net) ==
    IF ~validMethod(method) \/ UrlParse(SubSeq(path, IndexByte(path, "/") + 2, Len(path))).err
    THEN [resp |-> makeErrorResponse(<<"i", "n", "v", "a", "l", "i", "d", "_", "r", "e", "q", "u", "e", "s", "t">>, path), err |-> TRUE]
    ELSE IF net \notin Answered \/ DialFails(HostPort(path))
    THEN [resp |-> makeErrorResponse(<<"e", "r", "r", "o", "r">>, path), err |-> TRUE]
    ELSE [resp |-> makeSuccessResponse(<<"s", "e", "n", "t">>, localAddr, localPort, 0, path),
          err |-> FALSE]

\* sendHttpMessage: net is the outcome of http.DefaultClient.Do on a
\* well-formed request, one of Answered or "fail"
sendHttpMessage(method, path, body, net) ==
    IF ~validMethod(method) \/ UrlParse(SubSeq(path, IndexByte(path, "/") + 2, Len(path))).err
    THEN [resp |-> makeErrorResponse(<<"i", "n", "v", "a", "l", "i", "d", "_", "r", "e", "q", "u", "e", "s", "t">>, path), err |-> TRUE]
    ELSE IF net \notin Answered \/ DialFails(HostPort(path))
    THEN [resp |-> makeErrorResponse(<<"e", "r", "r", "o", "r">>, path), err |-> TRUE]
    ELSE [resp |-> makeSuccessResponse(<<"s", "e", "n", "t">>, localAddr, localPort, Len(body), path),
          err |-> FALSE]

\* SendTo without the test of the error of injectPortIntoAddress
SendTo_NoAddressCheck(method, destAddr, destPort, protocol, body, net, inj) ==
    IF isHttp(protocol)
    THEN sendHttpMessage(method, protocol \o <<":", "/", "/">> \o destAddr, body, net)
    ELSE [resp |-> makeErrorResponse(<<"u", "n", "k", "n", "o", "w", "n", "_", "p", "r", "o", "t", "o", "c", "o", "l">>,
                                     protocol \o <<":", "/", "/">> \o destAddr),
          err |-> TRUE]

\* sendMessage, lines 396-409, with the result of injectPortIntoAddress
SendTo(method, destAddr, destPort, protocol, body, net, inj) ==
    IF inj.err
    THEN [resp |-> makeErrorResponse(<<"i", "n", "v", "a", "l", "i", "d", "_", "a", "d", "d", "r", "e", "s", "s">>,
                       <<"p", "a", "t", "h", " ">> \o destAddr \o <<" ", "p", "o", "r", "t", " ">> \o Itoa(destPort)
                       \o <<" ", "p", "r", "o", "t", "o", "c", "o", "l", " ">> \o protocol),
          err |-> TRUE]
    ELSE IF isHttp(protocol)
    THEN sendHttpMessage(method, protocol \o <<":", "/", "/">> \o inj.addr, body, net)
    ELSE [resp |-> makeErrorResponse(<<"u", "n", "k", "n", "o", "w", "n", "_", "p", "r", "o", "t", "o", "c", "o", "l">>,
                                     protocol \o <<":", "/", "/">> \o inj.addr),
          err |-> TRUE]

\* sendMessage
sendMessage(method, destAddr, destPort, protocol, body, net) ==
    SendTo(method, destAddr, destPort, protocol, body, net,
           injectPortIntoAddress(destAddr, destPort, protocol))

\* ----------------------------------------------------------------- execute
\* the commands exec.LookPath resolves on the search path
Resolvable == {<<"l", "s">>}

\* startProcess, as one blocking call: proc is the outcome of
\* os.StartProcess and Process.Wait, "exited", "start_failed" or
\* "wait_failed"
startProcess(cmd, args, proc) ==
    IF cmd \notin Resolvable
    THEN [err |-> <<"u", "n", "a", "b", "l", "e", " ", "t", "o", " ", "r", "e", "s", "o", "l", "v", "e", " ", "p", "a", "t", "h", " ", "f", "o", "r", " ">> \o cmd \o <<":", " ", "e", "x", "e", "c", ":", " ">> \o <<QUOTE>> \o cmd
                  \o <<QUOTE>> \o <<":", " ", "e", "x", "e", "c", "u", "t", "a", "b", "l", "e", " ", "f", "i", "l", "e", " ", "n", "o", "t", " ", "f", "o", "u", "n", "d", " ", "i", "n", " ", "$", "P", "A", "T", "H">>,
          pid |-> 0, state |-> <<>>]
    ELSE IF proc = "start_failed"
    THEN [err |-> <<"f", "o", "r", "k", "/", "e", "x", "e", "c">>, pid |-> 0, state |-> <<>>]
    ELSE IF proc = "wait_failed"
    THEN [err |-> <<"w", "a", "i", "t">>, pid |-> childPid, state |-> <<>>]
    ELSE [err |-> <<>>, pid |-> childPid, state |-> <<"e", "x", "i", "t", " ", "s", "t", "a", "t", "u", "s", " ", "0">>]

\* -------------------------------------------------------------------- main
\* fmt's %v of a []string
FmtArgs(args) ==
    <<"[">> \o Join(args, <<" ">>) \o <<"]">>

\* the error the argument checks hand to check()
NotEnoughArguments(activity, commandArgs) ==
    <<"n", "o", "t", " ", "e", "n", "o", "u", "g", "h", " ", "a", "r", "g", "u", "m", "e", "n", "t", "s", " ", "f", "o", "r", " ">> \o activity \o <<"!", " ", "A", "r", "g", "s", ":", " ">> \o FmtArgs(commandArgs)

\* the outcome of the switch of main: panic is empty when the case ends
\* normally, else the message of the panic that stopped it
Outcome(panic, entry, fsv) ==
    [panic |-> panic, entry |-> entry, fs |-> fsv]

\* time.Now().Format(time.RFC3339) of the n-th invocation
Now(n) ==
    <<"t">> \o Itoa(n)

\* main, lines 181-189
InitialEntry(n, command, commandArgs) ==
    [NewActivityLogEntry EXCEPT
        !.timestamp = Now(n),
        !.activity = command,
        !.username = currentUsername,
        !.os = currentOS,
        !.processName = currentProcessName,
        !.processCmd = escapeCommandString(command, commandArgs),
        !.processId = currentProcessId]

\* Started without the pid of the spawned process
Started_KeepsPid(entry, fsv, started) ==
    IF started.err # <<>> THEN Outcome(started.err, entry, fsv)
    ELSE Outcome(<<>>, [entry EXCEPT !.status = started.state], fsv)

\* Started without check(err): the error of startProcess is dropped and
\* the entry is written
Started_IgnoresError(entry, fsv, started) ==
    Outcome(<<>>, [entry EXCEPT !.processId = started.pid,
                                !.status = IF started.state = <<>>
                                           THEN <<"u", "n", "a", "b", "l", "e", "_", "t", "o", "_", "r", "u", "n">> ELSE started.state],
            fsv)

\* main, lines 200-217: check(err), then the pid and the status
Started(entry, fsv, started) ==
    IF started.err # <<>> THEN Outcome(started.err, entry, fsv)
    ELSE Outcome(<<>>, [entry EXCEPT !.processId = started.pid,
                                   !.status = started.state], fsv)

\* main, case "execute": commandArgs[0] without a length check
ExecuteCase(commandArgs, entry, fsv, env) ==
    IF Len(commandArgs) < 1 THEN Outcome(<<"r", "u", "n", "t", "i", "m", "e", " ", "e", "r", "r", "o", "r", ":", " ", "i", "n", "d", "e", "x", " ", "o", "u", "t", " ", "o", "f", " ", "r", "a", "n", "g", "e", " ", "[", "0", "]", " ", "w", "i", "t", "h", " ", "l", "e", "n", "g", "t", "h", " ", "0">>, entry, fsv)
    ELSE Started([entry EXCEPT !.processCmd =
                      escapeCommandString(commandArgs[1], Tail(commandArgs))],
                 fsv, startProcess(commandArgs[1], Tail(commandArgs), env.proc))

\* FileCase with the status of the success branch whatever err is
FileCase_OwnStatus(path, entry, fsv, okStatus, r) ==
    IF fileExists(fsv[path]).panic
    THEN Outcome(<<"r", "u", "n", "t", "i", "m", "e", " ", "e", "r", "r", "o", "r", ":", " ", "i", "n", "v", "a", "l", "i", "d", " ", "m", "e", "m", "o", "r", "y", " ", "a", "d", "d", "r", "e", "s", "s", " ", "o", "r", " ", "n", "i", "l", " ", "p", "o", "i", "n", "t", "e", "r", " ", "d", "e", "r", "e", "f", "e", "r", "e", "n", "c", "e">>,
                 entry, fsv)
    ELSE Outcome(<<>>, [entry EXCEPT !.status = okStatus], [fsv EXCEPT ![path] = r.st])

\* main, the cases "create", "update" and "delete" after the argument
\* check: r is what createFile, updateFile or deleteFile returned; the
\* status is the returned one when err != nil, else the case's own word;
\* the nil dereference in fileExists panics before anything is done
FileCase(path, entry, fsv, okStatus, r) ==
    IF fileExists(fsv[path]).panic
    THEN Outcome(<<"r", "u", "n", "t", "i", "m", "e", " ", "e", "r", "r", "o", "r", ":", " ", "i", "n", "v", "a", "l", "i", "d", " ", "m", "e", "m", "o", "r", "y", " ", "a", "d", "d", "r", "e", "s", "s", " ", "o", "r", " ", "n", "i", "l", " ", "p", "o", "i", "n", "t", "e", "r", " ", "d", "e", "r", "e", "f", "e", "r", "e", "n", "c", "e">>,
                 entry, fsv)
    ELSE Outcome(<<>>, [entry EXCEPT !.status = IF r.err THEN r.status ELSE okStatus],
                 [fsv EXCEPT ![path] = r.st])

\* CreateCase without the optional second argument: the contents are
\* always the default
CreateCase_NoContents(commandArgs, entry, fsv, env) ==
    IF Len(commandArgs) < 1
    THEN Outcome(NotEnoughArguments(<<"c", "r", "e", "a", "t", "e">>, commandArgs), entry, fsv)
    ELSE FileCase(commandArgs[1], entry, fsv, <<"c", "r", "e", "a", "t", "e", "d">>,
                  createFile(fsv[commandArgs[1]], <<>>, env.writeErr))

\* main, case "create"
CreateCase(commandArgs, entry, fsv, env) ==
    IF Len(commandArgs) < 1
    THEN Outcome(NotEnoughArguments(<<"c", "r", "e", "a", "t", "e">>, commandArgs), entry, fsv)
    ELSE FileCase(commandArgs[1], entry, fsv, <<"c", "r", "e", "a", "t", "e", "d">>,
                  createFile(fsv[commandArgs[1]],
                             IF Len(commandArgs) > 1 THEN commandArgs[2] ELSE <<>>,
                             env.writeErr))

\* main, case "update": two arguments are required
UpdateCase(commandArgs, entry, fsv, env) ==
    IF Len(commandArgs) < 2
    THEN Outcome(NotEnoughArguments(<<"u", "p", "d", "a", "t", "e">>, commandArgs), entry, fsv)
    ELSE FileCase(commandArgs[1], entry, fsv, <<"u", "p", "d", "a", "t", "e", "d">>,
                  updateFile(fsv[commandArgs[1]], commandArgs[2], env.writeErr))

\* main, case "delete"
DeleteCase(commandArgs, entry, fsv) ==
    IF Len(commandArgs) < 1
    THEN Outcome(NotEnoughArguments(<<"d", "e", "l", "e", "t", "e">>, commandArgs), entry, fsv)
    ELSE FileCase(commandArgs[1], entry, fsv, <<"d", "e", "l", "e", "t", "e", "d">>, deleteFile(fsv[commandArgs[1]]))

\* main, lines 292-315: the entry after sendMessage returned r
SendEntry(method, destAddr, destPort, protocol, entry, r) ==
    [entry EXCEPT
        !.method = method,
        !.destAddr = destAddr,
        !.destPort = destPort,
        !.protocol = protocol,
        !.status = IF r.err THEN r.resp.status ELSE <<"s", "e", "n", "t">>,
        !.path = r.resp.path,
        !.sourceAddr = r.resp.sourceAddr,
        !.sourcePort = r.resp.sourcePort,
        !.bytesSent = r.resp.bytesSent]

\* main, lines 292-315, with the arguments and their defaults
SendArgs(method, destAddr, destPort, protocol, data, entry, fsv, env) ==
    Outcome(<<>>, SendEntry(method, destAddr, destPort, protocol, entry,
                          sendMessage(method, destAddr, destPort, protocol, data,
                                      env.net)),
            fsv)

\* SendCase with https as the default protocol
SendCase_DefaultHttps(commandArgs, entry, fsv, env) ==
    IF Len(commandArgs) < 2
    THEN Outcome(NotEnoughArguments(<<"s", "e", "n", "d">>, commandArgs), entry, fsv)
    ELSE IF Len(commandArgs) > 2 /\ ~AtoiOk(commandArgs[3])
    THEN Outcome(<<"s", "t", "r", "c", "o", "n", "v", ".", "A", "t", "o", "i", ":", " ", "p", "a", "r", "s", "i", "n", "g", " ">> \o <<QUOTE>> \o commandArgs[3] \o <<QUOTE>>
                 \o <<":", " ", "i", "n", "v", "a", "l", "i", "d", " ", "s", "y", "n", "t", "a", "x">>, entry, fsv)
    ELSE SendArgs(commandArgs[1], commandArgs[2],
                  IF Len(commandArgs) > 2 THEN Atoi(commandArgs[3]) ELSE 80,
                  IF Len(commandArgs) > 3 THEN commandArgs[4] ELSE <<"h", "t", "t", "p", "s">>,
                  IF Len(commandArgs) > 4 THEN commandArgs[5] ELSE <<>>,
                  entry, fsv, env)

\* main, case "send": the arguments and their defaults, lines 265-290
SendCase(commandArgs, entry, fsv, env) ==
    IF Len(commandArgs) < 2
    THEN Outcome(NotEnoughArguments(<<"s", "e", "n", "d">>, commandArgs), entry, fsv)
    ELSE IF Len(commandArgs) > 2 /\ ~AtoiOk(commandArgs[3])
    THEN Outcome(<<"s", "t", "r", "c", "o", "n", "v", ".", "A", "t", "o", "i", ":", " ", "p", "a", "r", "s", "i", "n", "g", " ">> \o <<QUOTE>> \o commandArgs[3] \o <<QUOTE>>
                 \o <<":", " ", "i", "n", "v", "a", "l", "i", "d", " ", "s", "y", "n", "t", "a", "x">>, entry, fsv)
    ELSE SendArgs(commandArgs[1], commandArgs[2],
                  IF Len(commandArgs) > 2 THEN Atoi(commandArgs[3]) ELSE 80,
                  IF Len(commandArgs) > 3 THEN commandArgs[4] ELSE <<"h", "t", "t", "p">>,
                  IF Len(commandArgs) > 4 THEN commandArgs[5] ELSE <<>>,
                  entry, fsv, env)

\* main, lines 191-320: the switch on the command
Dispatch(command, commandArgs, entry, fsv, env) ==
    IF command = <<"e", "x", "e", "c", "u", "t", "e">> THEN ExecuteCase(commandArgs, entry, fsv, env)
    ELSE IF command = <<"c", "r", "e", "a", "t", "e">> THEN CreateCase(commandArgs, entry, fsv, env)
    ELSE IF command = <<"u", "p", "d", "a", "t", "e">> THEN UpdateCase(commandArgs, entry, fsv, env)
    ELSE IF command = <<"d", "e", "l", "e", "t", "e">> THEN DeleteCase(commandArgs, entry, fsv)
    ELSE IF command = <<"s", "e", "n", "d">> THEN SendCase(commandArgs, entry, fsv, env)
    ELSE IF command = <<"h", "e", "l", "p">> THEN Outcome(<<>>, entry, fsv)
    ELSE Outcome(<<"i", "n", "v", "a", "l", "i", "d", " ", "c", "o", "m", "m", "a", "n", "d", " ", "s", "p", "e", "c", "i", "f", "i", "e", "d", ":", " ">> \o command, entry, fsv)

\* what one invocation leaves behind: exit is "no_command" (main returns at
\* line 92), "panic" or "done" (main reached its end); opened says whether
\* the log file was opened for writing; written lists the strings the
\* invocation wrote to the log file, in order
Result(exit, panic, opened, logv, fsv, entry, written) ==
    [exit |-> exit, panic |-> panic, opened |-> opened, log |-> logv,
     fs |-> fsv, entry |-> entry, written |-> written]

\* (*os.File).Close on a handle that is "none" (the nil file of a failed
\* open), "open" or "closed": only an open handle changes
Close(handle) ==
    IF handle = "open" THEN "closed" ELSE handle

\* main, lines 103 and 149: the read-only handle once main has passed line
\* 149; a failed open leaves the nil file
PeekHandle(logv) ==
    Close(IF logv.kind # "file" \/ logv.access # "rw" THEN "none" ELSE "open")

\* the two handles of the log file when the process ends
Handles(peek, handle) ==
    [peek |-> peek, handle |-> handle]

\* AtExit with activityLogFile.Close() as the last statement of main
\* instead of a deferred call: a panic skips it
AtExit_CloseAtEnd(logv, res) ==
    IF res.exit = "no_command" THEN Handles("none", "none")
    ELSE IF ~res.opened THEN Handles(PeekHandle(logv), "none")
    ELSE IF res.exit = "panic" THEN Handles(PeekHandle(logv), "open")
    ELSE Handles(PeekHandle(logv), Close("open"))

\* the handles main leaves when the process ends: the return of line 92
\* opens nothing; the panic of line 165 has the nil file; after line 166
\* the deferred activityLogFile.Close() runs when main returns and when a
\* panic unwinds it
AtExit(logv, res) ==
    IF res.exit = "no_command" THEN Handles("none", "none")
    ELSE IF ~res.opened THEN Handles(PeekHandle(logv), "none")
    ELSE Handles(PeekHandle(logv), Close("open"))

\* Finish with the entry written by a deferred call: it is written on a
\* panic too
Finish_WritesOnPanic(logv, history, out) ==
    Result(IF out.panic # <<>> THEN "panic" ELSE "done", out.panic, TRUE,
           [logv EXCEPT !.kind = "file",
                        !.data = writeLogEntry(history, out.entry).data],
           out.fs, out.entry, writeLogEntry(history, out.entry).written)

\* main, lines 191-322: the switch returned out; a panic leaves the log
\* file as the header write left it, else the entry is written
Finish(logv, history, out) ==
    IF out.panic # <<>>
    THEN Result("panic", out.panic, TRUE,
                [logv EXCEPT !.kind = "file", !.data = history.data],
                out.fs, out.entry, history.written)
    ELSE Result("done", <<>>, TRUE,
                [logv EXCEPT !.kind = "file",
                             !.data = writeLogEntry(history, out.entry).data],
                out.fs, out.entry, writeLogEntry(history, out.entry).written)

\* main, lines 169-322, with the log file open
Opened(logv, fsv, command, commandArgs, entry, env, history) ==
    Finish(logv, history, Dispatch(command, commandArgs, entry, fsv, env))

\* Logged without the check(err) of line 165: the activity runs although
\* the log file could not be opened
Logged_NoOpenCheck(logv, fsv, command, commandArgs, entry, env, existing, opened) ==
    IF existing.panic
    THEN Result("panic", <<"n", "o", "t", " ", "e", "n", "o", "u", "g", "h", " ", "f", "i", "e", "l", "d", "s", " ", "i", "n", " ", "r", "o", "w">>, FALSE, logv, fsv, entry, <<>>)
    ELSE Opened(logv, fsv, command, commandArgs, entry, env,
                WriteHistory(opened, existing.entries))

\* main, lines 100-322: the scan gave existing, the open gave opened
Logged(logv, fsv, command, commandArgs, entry, env, existing, opened) ==
    IF existing.panic
    THEN Result("panic", <<"n", "o", "t", " ", "e", "n", "o", "u", "g", "h", " ", "f", "i", "e", "l", "d", "s", " ", "i", "n", " ", "r", "o", "w">>, FALSE, logv, fsv, entry, <<>>)
    ELSE IF opened.err
    THEN Result("panic", <<"o", "p", "e", "n">>, FALSE, logv, fsv, entry, <<>>)
    ELSE Opened(logv, fsv, command, commandArgs, entry, env,
                WriteHistory(opened, existing.entries))

\* main: the whole invocation
main(logv, fsv, n, overwrite, remainingArgs, env) ==
    IF Len(remainingArgs) < 1
    THEN Result("no_command", <<>>, FALSE, logv, fsv, NewActivityLogEntry, <<>>)
    ELSE Logged(logv, fsv, remainingArgs[1], Tail(remainingArgs),
                InitialEntry(n, remainingArgs[1], Tail(remainingArgs)), env,
                ReadExisting(logv), OpenLog(logv, overwrite))

\* ------------------------------------------------------------------- state
VARIABLES
    log,     \* the log file at -logfile
    fs,      \* the paths the activities work on
    nRuns,   \* invocations so far
    last,    \* the most recent invocation: its command line, what it found
             \* and what it left behind
    trail,   \* history: how the log file started, whether -overwrite was
             \* ever given, how many invocations panicked, and the record
             \* lines of the invocations that reached the end of main
    exec,    \* startProcess step by step: the main flow, the spawned
             \* process, the pipe and the goroutine that reads it
    codec,   \* one row on its way through splitCSVRow and
             \* deserializeFromCSV
    drain    \* startProcess byte by byte: the spawned process, the pipe
             \* with its capacity, and the buffer of the scanner

vars == <<log, fs, nRuns, last, trail, exec, codec, drain>>

\* the target path of the file activities; it is not the log file
F == <<"f">>

Paths == {F}

\* a command line: the -overwrite flag, flag.Args(), and what the
\* collaborators answer during the invocation
CommandLine(overwrite, args, writeErr, proc, net) ==
    [overwrite |-> overwrite, args |-> args,
     env |-> [writeErr |-> writeErr, proc |-> proc, net |-> net]]

\* a command line whose collaborators all succeed
Cmd(overwrite, args) ==
    CommandLine(overwrite, args, FALSE, "exited", "ok")

\* rows an earlier invocation wrote
RowA ==
    Join(serializeToCSV([InitialEntry(0, <<"c", "r", "e", "a", "t", "e">>, <<F>>) EXCEPT !.status = <<"c", "r", "e", "a", "t", "e", "d">>]),
         <<COMMA>>)

RowB ==
    Join(serializeToCSV([InitialEntry(0, <<"d", "e", "l", "e", "t", "e">>, <<F>>) EXCEPT !.status = <<"d", "e", "l", "e", "t", "e", "d">>]),
         <<COMMA>>)

\* a row cut short: fewer than 16 fields
BadRow == <<"t", "0", ",", "c", "r", "e", "a", "t", "e", ",", "l", "i", "n">>

\* a file of the given lines, each ended by a newline
RECURSIVE FileOf(_)
FileOf(lines) ==
    IF lines = <<>> THEN <<>>
    ELSE Head(lines) \o <<NL>> \o FileOf(Tail(lines))

\* the log files an invocation may find
InitialLogs ==
    { LogFile("absent", <<>>, "rw"),
      LogFile("absent", <<>>, "none"),
      LogFile("file", <<>>, "rw"),
      LogFile("file", FileOf(<<HeaderStr>>), "rw"),
      LogFile("file", FileOf(<<HeaderStr>>), "wo"),
      LogFile("file", FileOf(<<HeaderStr>>), "none"),
      LogFile("file", FileOf(<<HeaderStr, RowA, RowB>>), "rw"),
      LogFile("file", FileOf(<<HeaderStr, BadRow, RowA, RowB>>), "rw"),
      LogFile("file", FileOf(<<HeaderStr, RowA, BadRow, RowB>>), "rw"),
      LogFile("file", FileOf(<<HeaderStr, RowA, RowB, BadRow>>), "rw"),
      LogFile("file", FileOf(<<RowA, RowB>>), "rw"),
      LogFile("file", FileOf(<<HeaderStr, RowA>>) \o RowB, "rw") }

\* the states the target path may start in
InitialPaths ==
    { AbsentPath(TRUE), FilePath(<<"x", "y", "z">>, TRUE) }

NoRun ==
    [n |-> 0, overwrite |-> FALSE, args |-> <<>>,
     env |-> [writeErr |-> FALSE, proc |-> "exited", net |-> "ok"],
     logBefore |-> LogFile("absent", <<>>, "rw"),
     fsBefore |-> [p \in Paths |-> AbsentPath(TRUE)],
     handles |-> Handles("none", "none"),
     res |-> Result("none", <<>>, FALSE, LogFile("absent", <<>>, "rw"),
                    [p \in Paths |-> AbsentPath(TRUE)], NewActivityLogEntry, <<>>)]

\* no process spawned: the pipe is not created, no goroutine runs
NoExec ==
    [pc |-> "idle", child |-> "none", output |-> <<>>, wrote |-> <<>>, pipe |-> <<>>,
     rOpen |-> FALSE, wOpen |-> FALSE, reader |-> "none", buf |-> <<>>,
     cancelled |-> FALSE, console |-> <<>>]

\* no row read yet
NoCodec ==
    [pc |-> "idle", text |-> <<>>, row |-> [fields |-> <<>>, err |-> FALSE],
     parsed |-> [panic |-> FALSE, entry |-> NewActivityLogEntry]]

\* no process spawned
NoDrain ==
    [pc |-> "idle", child |-> "none", output |-> <<>>, pipe |-> <<>>,
     buf |-> <<>>, reader |-> "none"]

InitWith(logs, paths) ==
    /\ exec = NoExec
    /\ codec = NoCodec
    /\ drain = NoDrain
    /\ log \in logs
    /\ fs \in [Paths -> paths]
    /\ nRuns = 0
    /\ last = NoRun
    /\ trail = [startAbsent |-> log.kind = "absent", overwritten |-> FALSE,
                panics |-> 0, lines |-> <<>>]

Init ==
    InitWith(InitialLogs, InitialPaths)

\* what one run leaves in the state
Ran(cl, res) ==
    /\ nRuns' = nRuns + 1
    /\ log' = res.log
    /\ fs' = res.fs
    /\ last' = [n |-> nRuns + 1, overwrite |-> cl.overwrite, args |-> cl.args,
                env |-> cl.env, logBefore |-> log, fsBefore |-> fs,
                handles |-> AtExit(log, res), res |-> res]
    /\ trail' = [trail EXCEPT
                    !.overwritten = @ \/ cl.overwrite,
                    !.panics = IF res.exit = "panic" THEN @ + 1 ELSE @,
                    !.lines = IF res.exit = "done"
                              THEN Append(@, LogLine(res.entry)) ELSE @]

\* one run of the tool with the command line cl
Invoke(cl, maxRuns) ==
    /\ nRuns < maxRuns
    /\ Ran(cl, main(log, fs, nRuns + 1, cl.overwrite, cl.args, cl.env))
    /\ UNCHANGED <<exec, codec, drain>>

\* the command lines of the log store's specification
LogSuite ==
    { Cmd(ow, args) : ow \in BOOLEAN,
                      args \in { <<>>,
                                 <<<<"e", "x", "e", "c", "u", "t", "e">>, <<"l", "s">>>>,
                                 <<<<"e", "x", "e", "c", "u", "t", "e">>, <<"n", "o", "p", "e">>>>,
                                 <<<<"c", "r", "e", "a", "t", "e">>>>,
                                 <<<<"c", "r", "e", "a", "t", "e">>, F>>,
                                 <<<<"u", "p", "d", "a", "t", "e">>, F, <<"a">>>>,
                                 <<<<"d", "e", "l", "e", "t", "e">>, F>>,
                                 <<<<"s", "e", "n", "d">>>>,
                                 <<<<"s", "e", "n", "d">>, <<"G", "E", "T">>, <<"h">>>>,
                                 <<<<"h", "e", "l", "p">>>>,
                                 <<<<"b", "o", "g", "u", "s">>>> } }

\* the command lines of the file activities' specification: no -overwrite
FileSuite ==
    { Cmd(FALSE, args) : args \in { <<>>,
                                    <<<<"e", "x", "e", "c", "u", "t", "e">>>>,
                                    <<<<"e", "x", "e", "c", "u", "t", "e">>, <<"l", "s">>>>,
                                    <<<<"c", "r", "e", "a", "t", "e">>>>,
                                    <<<<"u", "p", "d", "a", "t", "e">>>>,
                                    <<<<"u", "p", "d", "a", "t", "e">>, F>>,
                                    <<<<"d", "e", "l", "e", "t", "e">>>>,
                                    <<<<"d", "e", "l", "e", "t", "e">>, F>>,
                                    <<<<"s", "e", "n", "d">>>>,
                                    <<<<"s", "e", "n", "d">>, <<"G", "E", "T">>>>,
                                    <<<<"s", "e", "n", "d">>, <<"G", "E", "T">>, <<"h">>>>,
                                    <<<<"h", "e", "l", "p">>>>,
                                    <<<<"b", "o", "g", "u", "s">>>> } }
    \cup { CommandLine(FALSE, args, writeErr, "exited", "ok") :
               writeErr \in BOOLEAN,
               args \in { <<<<"c", "r", "e", "a", "t", "e">>, F>>,
                          <<<<"c", "r", "e", "a", "t", "e">>, F, <<"a", "b">>>>,
                          <<<<"u", "p", "d", "a", "t", "e">>, F, <<>>>>,
                          <<<<"u", "p", "d", "a", "t", "e">>, F, <<"a">>>>,
                          <<<<"u", "p", "d", "a", "t", "e">>, F, <<"a", "b", "c", "d">>>> } }

\* the command lines of the append-only specification
AppendSuite ==
    { cl \in LogSuite : ~cl.overwrite }

Known == {<<"e", "x", "e", "c", "u", "t", "e">>, <<"c", "r", "e", "a", "t", "e">>, <<"u", "p", "d", "a", "t", "e">>, <<"d", "e", "l", "e", "t", "e">>, <<"s", "e", "n", "d">>, <<"h", "e", "l", "p">>}

NoCommand(suite, maxRuns) ==
    \E cl \in suite : cl.args = <<>> /\ Invoke(cl, maxRuns)

Execute(suite, maxRuns) ==
    \E cl \in suite : cl.args # <<>> /\ cl.args[1] = <<"e", "x", "e", "c", "u", "t", "e">> /\ Invoke(cl, maxRuns)

Create(suite, maxRuns) ==
    \E cl \in suite : cl.args # <<>> /\ cl.args[1] = <<"c", "r", "e", "a", "t", "e">> /\ Invoke(cl, maxRuns)

Update(suite, maxRuns) ==
    \E cl \in suite : cl.args # <<>> /\ cl.args[1] = <<"u", "p", "d", "a", "t", "e">> /\ Invoke(cl, maxRuns)

Delete(suite, maxRuns) ==
    \E cl \in suite : cl.args # <<>> /\ cl.args[1] = <<"d", "e", "l", "e", "t", "e">> /\ Invoke(cl, maxRuns)

Send(suite, maxRuns) ==
    \E cl \in suite : cl.args # <<>> /\ cl.args[1] = <<"s", "e", "n", "d">> /\ Invoke(cl, maxRuns)

Help(suite, maxRuns) ==
    \E cl \in suite : cl.args # <<>> /\ cl.args[1] = <<"h", "e", "l", "p">> /\ Invoke(cl, maxRuns)

Invalid(suite, maxRuns) ==
    \E cl \in suite : cl.args # <<>> /\ cl.args[1] \notin Known /\ Invoke(cl, maxRuns)

Step(suite, maxRuns) ==
    \/ NoCommand(suite, maxRuns)
    \/ Execute(suite, maxRuns)
    \/ Create(suite, maxRuns)
    \/ Update(suite, maxRuns)
    \/ Delete(suite, maxRuns)
    \/ Send(suite, maxRuns)
    \/ Help(suite, maxRuns)
    \/ Invalid(suite, maxRuns)

\* the log store: every kind of log file, both write modes
Next ==
    Step(LogSuite, MaxRuns)

Spec ==
    Init /\ [][Next]_vars

\* the file activities: every kind of target, contents of several lengths
InitFiles ==
    InitWith({ LogFile("absent", <<>>, "rw"), LogFile("file", FileOf(<<HeaderStr>>), "rw") },
             { AbsentPath(TRUE), AbsentPath(FALSE), FilePath(<<"x", "y", "z">>, TRUE),
               FilePath(<<"x", "y", "z">>, FALSE), DirPath, StatErrorPath })

NextFiles ==
    Step(FileSuite, MaxFileRuns)

SpecFiles ==
    InitFiles /\ [][NextFiles]_vars

\* the log file from its creation on, without -overwrite
InitAppend ==
    InitWith({ LogFile("absent", <<>>, "rw") }, InitialPaths)

NextAppend ==
    Step(AppendSuite, MaxAppendRuns)

SpecAppend ==
    InitAppend /\ [][NextAppend]_vars

\* ------------------------------------------------- execute, step by step
\* what the spawned process may write to its standard output: up to
\* MaxLines lines, each written to the pipe with its newline
OutputLines == {<<"a">>, <<"b">>}

Outputs ==
    UNION { [1..n -> OutputLines] : n \in 0..MaxLines }

\* the command line of the invocation SpecExec follows
ExecCmd ==
    Cmd(FALSE, <<<<"e", "x", "e", "c", "u", "t", "e">>, <<"l", "s">>>>)

InitExec ==
    InitWith({ LogFile("absent", <<>>, "rw") }, { AbsentPath(TRUE) })

\* startProcess, lines 655-689: the path resolves, os.Pipe gives r and w,
\* the reading goroutine is created and os.StartProcess starts the process
\* with w as its standard output
StartProcess ==
    /\ exec.pc = "idle"
    /\ ExecCmd.args[2] \in Resolvable
    /\ \E out \in Outputs :
           exec' = [exec EXCEPT !.pc = "wait", !.child = "running", !.output = out,
                                !.rOpen = TRUE, !.wOpen = TRUE, !.reader = "created"]
    /\ UNCHANGED <<log, fs, nRuns, last, trail, codec, drain>>

\* the spawned process writes its next line to its standard output
ChildWrite ==
    /\ exec.child = "running"
    /\ exec.output # <<>>
    /\ exec' = [exec EXCEPT !.pipe = Append(@, Head(exec.output)),
                            !.wrote = Append(@, Head(exec.output)),
                            !.output = Tail(@)]
    /\ UNCHANGED <<log, fs, nRuns, last, trail, codec, drain>>

\* the spawned process exits after its last line
ChildExit ==
    /\ exec.child = "running"
    /\ exec.output = <<>>
    /\ exec' = [exec EXCEPT !.child = "exited"]
    /\ UNCHANGED <<log, fs, nRuns, last, trail, codec, drain>>

\* the goroutine starts running: line 672
ReaderBegin ==
    /\ exec.reader = "created"
    /\ exec.pc # "exited"
    /\ exec' = [exec EXCEPT !.reader = "scan"]
    /\ UNCHANGED <<log, fs, nRuns, last, trail, codec, drain>>

\* the line rs.Scan() returned goes through the select of lines 676-685: it
\* is dropped and the goroutine returns when the context is done, else it
\* is printed
Deliver(e, text, rest) ==
    IF e.cancelled THEN [e EXCEPT !.reader = "done", !.buf = rest]
    ELSE [e EXCEPT !.console = Append(@, text), !.buf = rest]

\* one turn of the loop of lines 675-686: rs.Scan() takes the next line of
\* its buffer, or reads what the pipe holds; it returns false when r is
\* closed or at end of file, and it blocks on an empty pipe that is open
ReaderScan ==
    /\ exec.reader = "scan"
    /\ exec.pc # "exited"
    /\ \/ exec.buf # <<>>
       \/ ~exec.rOpen
       \/ exec.pipe # <<>>
       \/ exec.child = "exited" /\ ~exec.wOpen
    /\ exec' = IF exec.buf # <<>>
               THEN Deliver(exec, Head(exec.buf), Tail(exec.buf))
               ELSE IF ~exec.rOpen THEN [exec EXCEPT !.reader = "done"]
               ELSE IF exec.pipe # <<>>
               THEN Deliver([exec EXCEPT !.pipe = <<>>], Head(exec.pipe), Tail(exec.pipe))
               ELSE [exec EXCEPT !.reader = "done"]
    /\ UNCHANGED <<log, fs, nRuns, last, trail, codec, drain>>

\* p.Wait() returns once the process has exited: lines 695-703
WaitReturns ==
    /\ exec.pc = "wait"
    /\ exec.child = "exited"
    /\ exec' = [exec EXCEPT !.pc = "return"]
    /\ UNCHANGED <<log, fs, nRuns, last, trail, codec, drain>>

\* startProcess returns: the deferred r.Close() of line 664 runs first
CloseRead ==
    /\ exec.pc = "return"
    /\ exec' = [exec EXCEPT !.pc = "closedR", !.rOpen = FALSE]
    /\ UNCHANGED <<log, fs, nRuns, last, trail, codec, drain>>

\* then the deferred w.Close() of line 663
CloseWrite ==
    /\ exec.pc = "closedR"
    /\ exec' = [exec EXCEPT !.pc = "closedW", !.wOpen = FALSE]
    /\ UNCHANGED <<log, fs, nRuns, last, trail, codec, drain>>

\* main, lines 203-217 and 322: the pid, the status, and the record
WriteRecord ==
    /\ exec.pc = "closedW"
    /\ Ran(ExecCmd, main(log, fs, nRuns + 1, ExecCmd.overwrite, ExecCmd.args, ExecCmd.env))
    /\ exec' = [exec EXCEPT !.pc = "recorded"]
    /\ UNCHANGED <<codec, drain>>

\* main returns: the deferred cancelFunc() of line 207
Cancel ==
    /\ exec.pc = "recorded"
    /\ exec' = [exec EXCEPT !.pc = "cancelled", !.cancelled = TRUE]
    /\ UNCHANGED <<log, fs, nRuns, last, trail, codec, drain>>

\* the log file is closed and the process ends, the goroutine with it
Exit ==
    /\ exec.pc = "cancelled"
    /\ exec' = [exec EXCEPT !.pc = "exited"]
    /\ UNCHANGED <<log, fs, nRuns, last, trail, codec, drain>>

NextExec ==
    \/ StartProcess
    \/ ChildWrite
    \/ ChildExit
    \/ ReaderBegin
    \/ ReaderScan
    \/ WaitReturns
    \/ CloseRead
    \/ CloseWrite
    \/ WriteRecord
    \/ Cancel
    \/ Exit

SpecExec ==
    InitExec /\ [][NextExec]_vars

\* ------------------------------------------------ one row, step by step
\* the fields of rows an earlier invocation wrote, and of a row with a
\* field too many
BaseRows ==
    { serializeToCSV([InitialEntry(0, <<"c", "r", "e", "a", "t", "e">>, <<F>>) EXCEPT !.status = <<"c", "r", "e", "a", "t", "e", "d">>]),
      serializeToCSV([InitialEntry(0, <<"d", "e", "l", "e", "t", "e">>, <<F>>) EXCEPT !.status = <<"d", "e", "l", "e", "t", "e", "d">>]),
      serializeToCSV([InitialEntry(0, <<"u", "p", "d", "a", "t", "e">>, <<F, <<QUOTE>>>>) EXCEPT
                          !.status = <<"u", "p", "d", "a", "t", "e", "d">>]),
      serializeToCSV([InitialEntry(0, <<"s", "e", "n", "d">>, <<<<"G", "E", "T">>, <<"h">>>>) EXCEPT
                          !.status = <<"s", "e", "n", "t">>, !.path = <<"h", "t", "t", "p", ":", "/", "/", "h", ":", "8", "0">>,
                          !.method = <<"G", "E", "T">>, !.destAddr = <<"h">>, !.destPort = 80,
                          !.protocol = <<"h", "t", "t", "p">>]),
      serializeToCSV([InitialEntry(0, <<"h", "e", "l", "p">>, <<>>) EXCEPT !.status = <<"x">>])
          \o <<<<"m", "o", "r", "e">>>> }

\* the lines a log file may hold: every row, whole and cut short after any
\* number of fields
Rows ==
    UNION { { Join(SubSeq(fields, 1, k), <<COMMA>>) : k \in 0..Len(fields) } :
                fields \in BaseRows }

InitCodec ==
    InitWith({ LogFile("absent", <<>>, "rw") }, { AbsentPath(TRUE) })

\* main, line 127: scanner.Text() gives the next row of the file
ScanRow ==
    /\ codec.pc = "idle"
    /\ \E text \in Rows : codec' = [codec EXCEPT !.pc = "line", !.text = text]
    /\ UNCHANGED <<log, fs, nRuns, last, trail, exec, drain>>

\* main, lines 129-133: splitCSVRow; a row that does not tokenize is
\* reported and skipped
Tokenize ==
    /\ codec.pc = "line"
    /\ codec' = [codec EXCEPT !.row = splitCSVRow(codec.text),
                              !.pc = IF splitCSVRow(codec.text).err THEN "skipped"
                                     ELSE "row"]
    /\ UNCHANGED <<log, fs, nRuns, last, trail, exec, drain>>

\* main, lines 134-142: deserializeFromCSV; its check() panics and the
\* program aborts, else the record joins existingLogEntries
Deserialize ==
    /\ codec.pc = "row"
    /\ codec' = [codec EXCEPT !.parsed = deserializeFromCSV(codec.row.fields),
                              !.pc = IF deserializeFromCSV(codec.row.fields).panic
                                     THEN "aborted" ELSE "loaded"]
    /\ UNCHANGED <<log, fs, nRuns, last, trail, exec, drain>>

NextCodec ==
    \/ ScanRow
    \/ Tokenize
    \/ Deserialize

SpecCodec ==
    InitCodec /\ [][NextCodec]_vars

\* ------------------------------------------------ execute, byte by byte
\* the most bytes the spawned process writes: enough to fill the buffer of
\* the scanner and the pipe, and one more
MaxOutput == MaxScanTokenSize + PipeCapacity + 1

\* what the spawned process may write to its standard output
ChildOutputs ==
    UNION { [1..n -> {"x", NL}] : n \in 0..MaxOutput }

\* whether the text holds a newline
HasLine(text) ==
    \E i \in 1..Len(text) : text[i] = NL

InitDrain ==
    InitWith({ LogFile("absent", <<>>, "rw") }, { AbsentPath(TRUE) })

\* startProcess, lines 662-689: os.Pipe, the goroutine with its scanner on
\* r, and os.StartProcess with w as the standard output of the process
DrainStart ==
    /\ drain.pc = "idle"
    /\ \E out \in ChildOutputs :
           drain' = [drain EXCEPT !.pc = "wait", !.child = "running",
                                  !.output = out, !.reader = "scan"]
    /\ UNCHANGED <<log, fs, nRuns, last, trail, exec, codec>>

\* the spawned process writes the next byte: the write blocks while the
\* pipe is full
ChildWriteByte ==
    /\ drain.child = "running"
    /\ drain.output # <<>>
    /\ Len(drain.pipe) < PipeCapacity
    /\ drain' = [drain EXCEPT !.pipe = Append(@, Head(drain.output)),
                              !.output = Tail(@)]
    /\ UNCHANGED <<log, fs, nRuns, last, trail, exec, codec>>

\* the spawned process exits once it has written everything
ChildDone ==
    /\ drain.child = "running"
    /\ drain.output = <<>>
    /\ drain' = [drain EXCEPT !.child = "exited"]
    /\ UNCHANGED <<log, fs, nRuns, last, trail, exec, codec>>

\* rs.Scan(), line 675, with a whole line in the buffer: the line is the
\* token and leaves the buffer; lines 681-684 print and keep it
ScanToken ==
    /\ drain.pc = "wait"
    /\ drain.reader = "scan"
    /\ HasLine(drain.buf)
    /\ drain' = [drain EXCEPT !.buf = SubSeq(@, IndexByte(@, NL) + 1, Len(@))]
    /\ UNCHANGED <<log, fs, nRuns, last, trail, exec, codec>>

\* rs.Scan() with no whole line in a buffer that has room: it reads what
\* the pipe holds, as far as the buffer may grow; it blocks on an empty pipe
ScanFill ==
    /\ drain.pc = "wait"
    /\ drain.reader = "scan"
    /\ ~HasLine(drain.buf)
    /\ Len(drain.buf) < MaxScanTokenSize
    /\ drain.pipe # <<>>
    /\ \E k \in 1..Len(drain.pipe) :
           /\ Len(drain.buf) + k <= MaxScanTokenSize
           /\ drain' = [drain EXCEPT !.buf = @ \o SubSeq(drain.pipe, 1, k),
                                      !.pipe = SubSeq(@, k + 1, Len(@))]
    /\ UNCHANGED <<log, fs, nRuns, last, trail, exec, codec>>

\* rs.Scan() with a full buffer and no line in it: bufio.ErrTooLong, Scan
\* returns false, the loop of line 675 ends and the goroutine returns
ScanTooLong ==
    /\ drain.pc = "wait"
    /\ drain.reader = "scan"
    /\ ~HasLine(drain.buf)
    /\ Len(drain.buf) >= MaxScanTokenSize
    /\ drain' = [drain EXCEPT !.reader = "done"]
    /\ UNCHANGED <<log, fs, nRuns, last, trail, exec, codec>>

\* p.Wait(), line 695, returns once the process has exited, and
\* startProcess returns; its deferred calls close r and w
DrainWait ==
    /\ drain.pc = "wait"
    /\ drain.child = "exited"
    /\ drain' = [drain EXCEPT !.pc = "returned"]
    /\ UNCHANGED <<log, fs, nRuns, last, trail, exec, codec>>

NextDrain ==
    \/ DrainStart
    \/ ChildWriteByte
    \/ ChildDone
    \/ ScanToken
    \/ ScanFill
    \/ ScanTooLong
    \/ DrainWait

SpecDrain ==
    InitDrain /\ [][NextDrain]_vars

\* the spawned process, the goroutine and the main flow each run when they
\* can
SpecDrainFair ==
    /\ SpecDrain
    /\ WF_vars(DrainStart)
    /\ WF_vars(ChildWriteByte)
    /\ WF_vars(ChildDone)
    /\ WF_vars(ScanToken)
    /\ WF_vars(ScanFill)
    /\ WF_vars(ScanTooLong)
    /\ WF_vars(DrainWait)

\* --------------------------------------------------------------- send runs
\* a destination host
H == <<"h">>

\* the send command lines: the optional arguments given and left out, a
\* destination with a path, ports and protocols good and bad, and every
\* answer of the network
SendSuite ==
    { CommandLine(FALSE, <<<<"s", "e", "n", "d">>>> \o args, FALSE, "exited", net) :
          net \in Answered \cup {"fail"},
          args \in { <<<<"G", "E", "T">>, H>>,
                     <<<<"G", "E", "T">>, H, <<"8", "0">>>>,
                     <<<<"G", "E", "T">>, H, <<"8", "0">>, <<"h", "t", "t", "p">>>>,
                     <<<<"G", "E", "T">>, H, <<"8", "0">>, <<"h", "t", "t", "p">>, <<>>>>,
                     <<<<"G", "E", "T">>, H, <<"4", "4", "3">>, <<"h", "t", "t", "p">>>>,
                     <<<<"P", "O", "S", "T">>, H \o <<"/", "p">>, <<"4", "4", "3">>, <<"h", "t", "t", "p", "s">>, <<"h", "i">>>>,
                     <<<<"G", "E", "T">>, H, <<"6", "5", "5", "3", "6">>>>,
                     <<<<"G", "E", "T">>, H, <<"-", "1">>>>,
                     <<<<"G", "E", "T">>, H, <<"x">>>>,
                     <<<<"G", "E", "T">>, H, <<"2", "1">>, <<"f", "t", "p">>>>,
                     <<<<"G", "E", "T">>, <<"h", " ", "h">>>>,
                     <<<<"G", "E", "T">>, H \o <<":", "8", "0", "8", "0">>>>,
                     <<<<"G", "E", "T">>, <<"a", "h", AT, "h", "/", "p">>, <<"8", "0", "8", "0">>>>,
                     <<<<"G", " ", "T">>, H>> } }

InitSend ==
    InitWith({ LogFile("absent", <<>>, "rw"), LogFile("file", FileOf(<<HeaderStr>>), "rw") },
             { AbsentPath(TRUE) })

NextSend ==
    Send(SendSuite, MaxSendRuns)

SpecSend ==
    InitSend /\ [][NextSend]_vars

\* ------------------------------------------------------------- record runs
\* command lines whose arguments hold commas and newlines
RecordSuite ==
    { Cmd(FALSE, args) : args \in { <<>>,
                                    <<<<"e", "x", "e", "c", "u", "t", "e">>, <<"l", "s">>, <<"-", "a", ",", "b">>>>,
                                    <<<<"c", "r", "e", "a", "t", "e">>, F, <<"a", COMMA, "b", NL, "c">>>>,
                                    <<<<"u", "p", "d", "a", "t", "e">>, F, <<COMMA>>>>,
                                    <<<<"d", "e", "l", "e", "t", "e">>, F>>,
                                    <<<<"s", "e", "n", "d">>, <<"G", "E", "T">>, H>>,
                                    <<<<"s", "e", "n", "d">>, <<"G", "E", "T">>, H \o <<"/", "a", ",", "b">>>>,
                                    <<<<"s", "e", "n", "d">>, <<"G", "E", "T">>, H, <<"8", "0">>, <<"h", "t", "t", "p">>, <<"x", NL, "y">>>>,
                                    <<<<"s", "e", "n", "d">>, <<"G", "E", "T">>, H, <<"8", "0">>, <<"h", "t", "t", "p">>, <<"x", BSLASH, "n", "y">>>>,
                                    <<<<"h", "e", "l", "p">>>>,
                                    <<<<"b", "o", "g", "u", "s">>>> } }

InitRecord ==
    InitWith({ LogFile("absent", <<>>, "rw"), LogFile("file", FileOf(<<HeaderStr>>), "rw") },
             InitialPaths)

NextRecord ==
    Step(RecordSuite, MaxRecordRuns)

SpecRecord ==
    InitRecord /\ [][NextRecord]_vars


\* ------------------------------------------------------------------ claims
\* the first argument of the last invocation, the empty string when none
LastCommand ==
    IF last.args = <<>> THEN <<>> ELSE last.args[1]

\* the path argument of the last invocation
LastPath ==
    last.args[2]

\* the last invocation was a file activity with its path argument
LastIs(command) ==
    /\ LastCommand = command
    /\ Len(last.args) >= 2

RECURSIVE Decoded(_)
\* the records of the lines that tokenize into at least 16 fields
Decoded(lines) ==
    IF lines = <<>> THEN <<>>
    ELSE IF splitCSVRow(Head(lines)).err \/ Len(splitCSVRow(Head(lines)).fields) < 16
    THEN Decoded(Tail(lines))
    ELSE <<deserializeFromCSV(splitCSVRow(Head(lines)).fields).entry>>
         \o Decoded(Tail(lines))

\* the records a log file holds: its valid rows, a header on its first line
\* apart
Recovered(logv) ==
    IF logv.kind # "file" \/ logv.data = <<>> THEN <<>>
    ELSE IF isCSVHeaderStr(Head(ScanLines(logv.data)))
    THEN Decoded(Tail(ScanLines(logv.data)))
    ELSE Decoded(ScanLines(logv.data))

RECURSIVE LogLines(_)
LogLines(entries) ==
    IF entries = <<>> THEN <<>>
    ELSE LogLine(Head(entries)) \o LogLines(Tail(entries))

\* the header, the records the log file held, the new record
Rebuilt(logv, entry) ==
    HeaderStr \o <<NL>> \o LogLines(Recovered(logv)) \o LogLine(entry)

\* the writes of the last invocation that are not the header
RecordWrites ==
    { i \in 1..Len(last.res.written) : last.res.written[i] # HeaderStr \o <<NL>> }

\* fewer arguments than the activity requires
TooFewArguments ==
    \/ LastCommand \in {<<"e", "x", "e", "c", "u", "t", "e">>, <<"c", "r", "e", "a", "t", "e">>, <<"u", "p", "d", "a", "t", "e">>, <<"d", "e", "l", "e", "t", "e">>} /\ Len(last.args) < 2
    \/ LastCommand = <<"s", "e", "n", "d">> /\ Len(last.args) < 3

\* C1: in append mode (the log file exists, no -overwrite) the bytes the log
\* file held are a prefix of what it holds after the invocation, and the
\* invocation writes nothing but its own record: no header, no old record
AppendKeepsBytes ==
    (last.res.exit # "none" /\ last.logBefore.kind = "file" /\ ~last.overwrite)
    => /\ IsPrefix(last.logBefore.data, log.data)
       /\ \A i \in 1..Len(last.res.written) :
              last.res.written[i] = LogLine(last.res.entry)

AppendKeepsBytesSeen ==
    /\ last.res.exit = "done"
    /\ last.logBefore.kind = "file"
    /\ ~last.overwrite
    /\ Len(last.logBefore.data) > Len(HeaderStr) + 1
    /\ Len(log.data) > Len(last.logBefore.data)

\* C2: after a completed -overwrite invocation on an existing log file the
\* file is the header, every recovered record re-serialized in order, and
\* the new record, with nothing after it
OverwriteRebuildsLog ==
    (last.res.exit = "done" /\ last.overwrite /\ last.logBefore.kind = "file")
    => log.data = Rebuilt(last.logBefore, last.res.entry)

\* the log files of the header, the rows RowA and RowB and one corrupted row
OneCorruptedRow ==
    { FileOf(<<HeaderStr, BadRow, RowA, RowB>>),
      FileOf(<<HeaderStr, RowA, BadRow, RowB>>),
      FileOf(<<HeaderStr, RowA, RowB, BadRow>>) }

\* C3: -overwrite on a log file of the header, N valid rows and one
\* corrupted row ends normally and leaves the header, the N rows and the new
\* record
CorruptedRowDropped ==
    (/\ last.overwrite
     /\ last.logBefore.kind = "file"
     /\ last.logBefore.access = "rw"
     /\ last.logBefore.data \in OneCorruptedRow
     /\ LastCommand \in {<<"c", "r", "e", "a", "t", "e">>, <<"u", "p", "d", "a", "t", "e">>, <<"d", "e", "l", "e", "t", "e">>}
     /\ ~TooFewArguments)
    => /\ last.res.exit = "done"
       /\ log.data = FileOf(<<HeaderStr, RowA, RowB>>) \o LogLine(last.res.entry)

\* C4: after an invocation that wrote its record, in either mode and
\* whatever the file held, the log file is the header, the valid prior
\* records and the new record
LogIsHeaderRecordsNew ==
    last.res.exit = "done"
    => log.data = Rebuilt(last.logBefore, last.res.entry)

\* C5: an invocation that reaches the end of main writes exactly one record,
\* and one with too few arguments writes none
OneRecordPerRun ==
    /\ last.res.exit = "done" => Cardinality(RecordWrites) = 1
    /\ TooFewArguments => Cardinality(RecordWrites) = 0

OneRecordPerRunSeen ==
    /\ last.res.exit = "done"
    /\ last.overwrite
    /\ Len(last.res.written) = 2
    /\ last.res.written[2] = LogLine(last.res.entry)

\* C6: from an absent log file and without -overwrite, the log file is the
\* header once, as its first line, and then the records of the completed
\* invocations in their order; a fatal invocation adds nothing
AppendOnlyLog ==
    (trail.startAbsent /\ ~trail.overwritten)
    => IF log.kind = "file"
       THEN log.data = HeaderStr \o <<NL>> \o Concat(trail.lines)
       ELSE trail.lines = <<>>

AppendOnlyLogSeen ==
    /\ trail.startAbsent
    /\ ~trail.overwritten
    /\ nRuns = 3
    /\ trail.panics = 1
    /\ Len(trail.lines) = 2
    /\ last.res.exit = "done"
    /\ IsPrefix(Now(1), trail.lines[1])

\* C7: after an -overwrite invocation that opened the log file, the first
\* line of the file is the header, whatever the file held
OverwriteStartsWithHeader ==
    (last.overwrite /\ last.res.opened)
    => IsPrefix(HeaderStr \o <<NL>>, log.data)

OverwriteStartsWithHeaderSeen ==
    /\ last.overwrite
    /\ last.res.opened
    /\ last.logBefore.kind = "file"
    /\ last.logBefore.data # <<>>
    /\ ~IsPrefix(HeaderStr, last.logBefore.data)

\* C8: update on an existing target, with status updated, leaves the target
\* holding exactly the supplied contents
UpdateReplacesContents ==
    (/\ LastIs(<<"u", "p", "d", "a", "t", "e">>)
     /\ Len(last.args) = 3
     /\ last.fsBefore[LastPath].kind = "file"
     /\ last.res.exit = "done"
     /\ last.res.entry.status = <<"u", "p", "d", "a", "t", "e", "d">>)
    => fs[LastPath].data = last.args[3]

LastContents ==
    IF Len(last.args) > 2 THEN last.args[3] ELSE <<>>

\* C10: create on an absent target gives status created when the file can
\* be created and written, and then the file holds exactly the supplied
\* contents, nothing when they are omitted
CreateOnAbsent ==
    (/\ LastIs(<<"c", "r", "e", "a", "t", "e">>)
     /\ last.fsBefore[LastPath].kind = "absent"
     /\ last.res.opened)
    => /\ (last.fsBefore[LastPath].access /\ ~last.env.writeErr)
          => last.res.entry.status = <<"c", "r", "e", "a", "t", "e", "d">>
       /\ last.res.entry.status = <<"c", "r", "e", "a", "t", "e", "d">>
          => fs[LastPath] = FilePath(LastContents, last.fsBefore[LastPath].access)

CreateOnAbsentSeen ==
    /\ LastIs(<<"c", "r", "e", "a", "t", "e">>)
    /\ last.fsBefore[LastPath].kind = "absent"
    /\ last.res.entry.status = <<"c", "r", "e", "a", "t", "e", "d">>
    /\ fs[LastPath].data = <<"a", "b">>

\* the last invocation was an update or a delete with all its arguments
LastIsUpdateOrDelete ==
    \/ LastIs(<<"u", "p", "d", "a", "t", "e">>) /\ Len(last.args) = 3
    \/ LastIs(<<"d", "e", "l", "e", "t", "e">>)

UpdateWithoutContents ==
    (/\ LastIs(<<"u", "p", "d", "a", "t", "e">>)
     /\ Len(last.args) = 2
     /\ last.fsBefore[LastPath].kind = "file"
     /\ last.fsBefore[LastPath].access
     /\ last.res.opened)
    => /\ last.res.exit = "done"
       /\ last.res.entry.status = <<"u", "p", "d", "a", "t", "e", "d">>

\* C13: update or delete of a target that exists and that the user cannot
\* modify or remove, a file without permission or a directory, gives status
\* error
UnmodifiableGivesError ==
    (/\ LastIsUpdateOrDelete
     /\ \/ last.fsBefore[LastPath].kind = "dir"
        \/ last.fsBefore[LastPath].kind = "file" /\ ~last.fsBefore[LastPath].access
     /\ last.res.opened)
    => /\ last.res.exit = "done"
       /\ last.res.entry.status = <<"e", "r", "r", "o", "r">>

\* the target of the last create holds no file and creating or writing it
\* fails: no permission, a write error, or a path that is a directory
CreateFails ==
    \/ /\ last.fsBefore[LastPath].kind = "absent"
       /\ ~last.fsBefore[LastPath].access \/ last.env.writeErr
    \/ last.fsBefore[LastPath].kind = "dir"

\* C14: create on an absent target whose creation or write fails gives
\* status error, the record is written and the invocation ends normally
CreateFailureGivesError ==
    (LastIs(<<"c", "r", "e", "a", "t", "e">>) /\ CreateFails /\ last.res.opened)
    => /\ last.res.exit = "done"
       /\ last.res.entry.status = <<"e", "r", "r", "o", "r">>
       /\ Cardinality(RecordWrites) = 1
       /\ last.res.written[Len(last.res.written)] = LogLine(last.res.entry)

CreateFailureGivesErrorSeen ==
    /\ LastIs(<<"c", "r", "e", "a", "t", "e">>)
    /\ last.fsBefore[LastPath].kind = "absent"
    /\ last.fsBefore[LastPath].access
    /\ last.env.writeErr
    /\ last.res.exit = "done"
    /\ last.res.entry.status = <<"e", "r", "r", "o", "r">>

\* the invocation before the last one was a delete of the same path that
\* was recorded with status deleted
DeletedBefore ==
    /\ last.n > 1
    /\ \E i \in 1..Len(trail.lines) :
           trail.lines[i] = LogLine([InitialEntry(last.n - 1, <<"d", "e", "l", "e", "t", "e">>, <<LastPath>>)
                                        EXCEPT !.status = <<"d", "e", "l", "e", "t", "e", "d">>])

\* C15: delete of an existing file the user may remove gives status deleted
\* and the file is gone; a delete of the same path right after it gives
\* not_found
DeleteRemoves ==
    /\ (/\ LastIs(<<"d", "e", "l", "e", "t", "e">>)
        /\ last.fsBefore[LastPath].kind = "file"
        /\ last.fsBefore[LastPath].access
        /\ last.res.opened)
       => /\ last.res.exit = "done"
          /\ last.res.entry.status = <<"d", "e", "l", "e", "t", "e", "d">>
          /\ fs[LastPath].kind = "absent"
    /\ (LastIs(<<"d", "e", "l", "e", "t", "e">>) /\ DeletedBefore /\ last.res.opened)
       => last.res.entry.status = <<"n", "o", "t", "_", "f", "o", "u", "n", "d">>

DeleteRemovesSeen ==
    /\ LastIs(<<"d", "e", "l", "e", "t", "e">>)
    /\ DeletedBefore
    /\ last.res.exit = "done"
    /\ last.res.entry.status = <<"n", "o", "t", "_", "f", "o", "u", "n", "d">>

\* as many arguments as the activity needs, on every reading of update
EnoughArguments ==
    \/ LastCommand \in {<<"c", "r", "e", "a", "t", "e">>, <<"d", "e", "l", "e", "t", "e">>} /\ Len(last.args) >= 2
    \/ LastCommand \in {<<"u", "p", "d", "a", "t", "e">>, <<"s", "e", "n", "d">>} /\ Len(last.args) >= 3

\* C16: with enough arguments and the log file open, create, update, delete
\* and send end normally with exactly one record that carries a status,
\* whatever the collaborators answer
CollaboratorOutcomesRecorded ==
    (EnoughArguments /\ last.res.opened)
    => /\ last.res.exit = "done"
       /\ Cardinality(RecordWrites) = 1
       /\ last.res.entry.status # <<>>

\* C17: an invocation with fewer arguments than its activity requires
\* panics with "not enough arguments for <activity>! Args: <arguments>" and
\* writes no record
TooFewArgumentsDiagnosed ==
    (TooFewArguments /\ last.res.opened)
    => /\ last.res.exit = "panic"
       /\ last.res.panic = NotEnoughArguments(LastCommand, Tail(last.args))
       /\ RecordWrites = {}

\* the activities of the specification
Activities == {<<"e", "x", "e", "c", "u", "t", "e">>, <<"c", "r", "e", "a", "t", "e">>, <<"u", "p", "d", "a", "t", "e">>, <<"d", "e", "l", "e", "t", "e">>, <<"s", "e", "n", "d">>}

\* C18: an invocation whose command is none of the five activities, or
\* that has no command, writes no record and touches no file
UnknownCommandFails ==
    (last.res.exit # "none" /\ LastCommand \notin Activities)
    => /\ last.res.exit # "done"
       /\ RecordWrites = {}
       /\ fs = last.fsBefore

\* C19: execute of a command that exec.LookPath does not resolve panics
\* with the resolution error and writes no record
UnresolvedCommandAborts ==
    (/\ LastCommand = <<"e", "x", "e", "c", "u", "t", "e">>
     /\ Len(last.args) >= 2
     /\ last.args[2] \notin Resolvable
     /\ last.res.opened)
    => /\ last.res.exit = "panic"
       /\ Index(last.res.panic, <<"e", "x", "e", "c", "u", "t", "a", "b", "l", "e", " ", "f", "i", "l", "e", " ", "n", "o", "t", " ", "f", "o", "u", "n", "d">>) # 0
       /\ RecordWrites = {}
       /\ fs = last.fsBefore

UnresolvedCommandAbortsSeen ==
    /\ LastCommand = <<"e", "x", "e", "c", "u", "t", "e">>
    /\ Len(last.args) >= 2
    /\ last.args[2] \notin Resolvable
    /\ last.overwrite
    /\ last.res.exit = "panic"
    /\ last.res.written = <<HeaderStr \o <<NL>>>>

\* C20: when an execute invocation has ended, every line the spawned
\* process wrote to its standard output has been echoed on the console, in
\* order, whatever the interleaving of the goroutine with the main flow
OutputEchoed ==
    exec.pc = "exited" => exec.console = exec.wrote

\* ------------------------------------------------------------ record fields
\* the record of the last invocation, which ended normally
Recorded ==
    last.res.exit = "done"

\* C21: the record of an execute that spawned its process carries the
\* identifier of that process; the record of every other activity carries
\* the identifier of the tool's own process
PidOfRecord ==
    Recorded
    => last.res.entry.processId =
           IF LastCommand = <<"e", "x", "e", "c", "u", "t", "e">> THEN childPid ELSE currentProcessId

PidOfRecordSeen ==
    /\ Recorded
    /\ LastCommand = <<"e", "x", "e", "c", "u", "t", "e">>
    /\ last.res.entry.processId = childPid
    /\ childPid # currentProcessId

\* a text with every comma and every newline escaped, character by character
RECURSIVE Escaped(_)
Escaped(text) ==
    IF text = <<>> THEN <<>>
    ELSE (IF Head(text) = COMMA THEN <<BSLASH, COMMA>>
          ELSE IF Head(text) = NL THEN <<BSLASH, "n">>
          ELSE <<Head(text)>>) \o Escaped(Tail(text))

\* the escaped words, each but the first after one space
RECURSIVE Spaced(_)
Spaced(words) ==
    IF words = <<>> THEN <<>>
    ELSE IF Len(words) = 1 THEN Escaped(words[1])
    ELSE Escaped(words[1]) \o <<" ">> \o Spaced(Tail(words))

\* the command word and the arguments of the last invocation: the word
\* execute is left out
CommandWords ==
    IF LastCommand = <<"e", "x", "e", "c", "u", "t", "e">> THEN Tail(last.args) ELSE last.args

SendMethod == last.args[2]
SendDest == last.args[3]
SendPort == IF Len(last.args) > 3 THEN Atoi(last.args[4]) ELSE 80
SendProtocol == IF Len(last.args) > 4 THEN last.args[5] ELSE <<"h", "t", "t", "p">>
SendBody == IF Len(last.args) > 5 THEN last.args[6] ELSE <<>>

\* the last invocation was a send with its two required arguments and a
\* port that is a number
LastIsSend ==
    /\ last.res.exit # "none"
    /\ LastCommand = <<"s", "e", "n", "d">>
    /\ Len(last.args) >= 3
    /\ (Len(last.args) > 3 => AtoiOk(last.args[4]))

\* the last invocation with another command line or another network
Rerun(args, net) ==
    main(last.logBefore, last.fsBefore, last.n, last.overwrite, args,
         [last.env EXCEPT !.net = net])

\* the record of the last invocation is the last thing written to the log
RecordWritten ==
    /\ Recorded
    /\ last.res.written # <<>>
    /\ last.res.written[Len(last.res.written)] = LogLine(last.res.entry)

\* the record tells of no connection: no local address, no local port
NoConnection(entry) ==
    /\ entry.sourceAddr = <<>>
    /\ entry.sourcePort = 0

\* C23: send with a protocol other than http and https ends with the status
\* unknown_protocol, no byte sent and no connection
UnknownProtocolRecorded ==
    (LastIsSend /\ ~isHttp(SendProtocol))
    => /\ Recorded
       /\ last.res.entry.status = <<"u", "n", "k", "n", "o", "w", "n", "_", "p", "r", "o", "t", "o", "c", "o", "l">>
       /\ last.res.entry.bytesSent = 0
       /\ NoConnection(last.res.entry)

\* the destination is not the host of a URL
Unparseable ==
    /\ LastIsSend
    /\ isHttp(SendProtocol)
    /\ UrlParse(SendDest).err

\* C24 as stated: send to a destination that is not the host of a URL
\* stops with the status error and no byte sent, and the record is written
UnparseableGivesError ==
    Unparseable
    => /\ RecordWritten
       /\ last.res.entry.status = <<"e", "r", "r", "o", "r">>
       /\ last.res.entry.bytesSent = 0

\* C24: send to a destination that is not the host of a URL stops with the
\* status invalid_address and no byte sent, whatever the network would
\* answer, and the record is written
UnparseableGivesInvalidAddress ==
    Unparseable
    => /\ RecordWritten
       /\ last.res.entry.status = <<"i", "n", "v", "a", "l", "i", "d", "_", "a", "d", "d", "r", "e", "s", "s">>
       /\ last.res.entry.bytesSent = 0
       /\ NoConnection(last.res.entry)
       /\ \A net \in Answered \cup {"fail"} : Rerun(last.args, net) = last.res

UnparseableSeen ==
    /\ Unparseable
    /\ RecordWritten
    /\ last.env.net \in Answered
    /\ last.res.entry.status = <<"i", "n", "v", "a", "l", "i", "d", "_", "a", "d", "d", "r", "e", "s", "s">>

\* a request that http.NewRequest accepts, for a destination that starts
\* with its host
WellFormedRequest ==
    /\ LastIsSend
    /\ isHttp(SendProtocol)
    /\ validMethod(SendMethod)
    /\ ~UrlParse(SendDest).err
    /\ SendPort >= 0
    /\ IsPrefix(UrlParse(SendDest).hostname, SendDest)
    /\ LastIndexByte(CutAt(SendDest, "/"), ":") = 0

\* protocol://host:port, followed by what the destination holds after its
\* host
ResolvedURL ==
    SendProtocol \o <<":", "/", "/">> \o UrlParse(SendDest).hostname \o <<":">> \o Itoa(SendPort)
    \o SubSeq(SendDest, Len(UrlParse(SendDest).hostname) + 1, Len(SendDest))

\* the transport of the last invocation failed
TransportFails ==
    /\ WellFormedRequest
    /\ (last.env.net = "fail" \/ SendPort > 65535)

\* C25: send whose transport fails writes a record with status error, no
\* byte sent, an empty sourceAddr, sourcePort 0 and the path
\* protocol://host:port
TransportFailureRecorded ==
    TransportFails
    => /\ RecordWritten
       /\ last.res.entry.status = <<"e", "r", "r", "o", "r">>
       /\ last.res.entry.bytesSent = 0
       /\ NoConnection(last.res.entry)
       /\ last.res.entry.path = ResolvedURL

TransportFailureSeen ==
    /\ TransportFails
    /\ RecordWritten
    /\ last.env.net \in Answered
    /\ SendPort = 65536
    /\ last.res.entry.path = <<"h", "t", "t", "p", ":", "/", "/", "h", ":", "6", "5", "5", "3", "6">>

\* the request of the last invocation was answered
Answers ==
    /\ WellFormedRequest
    /\ SendPort <= 65535
    /\ last.env.net \in Answered

SameSend(a, b) ==
    /\ a.path = b.path
    /\ a.method = b.method
    /\ a.destAddr = b.destAddr
    /\ a.destPort = b.destPort
    /\ a.protocol = b.protocol
    /\ a.status = b.status
    /\ a.bytesSent = b.bytesSent

\* the last invocation ends and records as the command line args does
SameAs(args) ==
    /\ Rerun(args, last.env.net).exit = last.res.exit
    /\ SameSend(Rerun(args, last.env.net).entry, last.res.entry)

\* C27: send M A records as send M A 80, as send M A 80 http and as
\* send M A 80 http with an empty body
SendDefaults ==
    (LastIsSend /\ Len(last.args) = 3)
    => /\ SameAs(last.args \o <<<<"8", "0">>>>)
       /\ SameAs(last.args \o <<<<"8", "0">>, <<"h", "t", "t", "p">>>>)
       /\ SameAs(last.args \o <<<<"8", "0">>, <<"h", "t", "t", "p">>, <<>>>>)

SendDefaultsSeen ==
    /\ LastIsSend
    /\ Len(last.args) = 3
    /\ Recorded
    /\ last.res.entry.status = <<"s", "e", "n", "t">>
    /\ last.res.entry.destPort = 80
    /\ last.res.entry.protocol = <<"h", "t", "t", "p">>
    /\ last.res.entry.path = <<"h", "t", "t", "p", ":", "/", "/", "h", ":", "8", "0">>

\* -------------------------------------------------------------------- codec
\* the record line of the last invocation, without its line end
RecordText ==
    Join(serializeToCSV(last.res.entry), <<COMMA>>)

\* the positions of the commas of text that no backslash precedes
UnescapedCommas(text) ==
    { i \in 1..Len(text) : text[i] = COMMA /\ (i = 1 \/ text[i - 1] # BSLASH) }

\* a line of 16 fields: 15 separating commas, every other comma escaped,
\* and no newline
WellFormedLine(text) ==
    /\ Cardinality(UnescapedCommas(text)) = 15
    /\ \A i \in 1..Len(text) : text[i] # NL

\* the line decodes, and encoding the decoded record gives the line back
RoundTrips(text, row) ==
    /\ ~row.err
    /\ Len(row.fields) >= 16
    /\ Join(serializeToCSV(deserializeFromCSV(row.fields).entry), <<COMMA>>) = text

\* C28: encoding the record decoded from a well-formed 16-field line gives
\* the line back, also when its processCmd holds an escaped comma or an
\* escaped newline
RoundTripOfWrittenLine ==
    (Recorded /\ WellFormedLine(RecordText))
    => RoundTrips(RecordText, splitCSVRow(RecordText))

\* C29: every record line written has 16 fields: 15 unescaped commas and no
\* raw newline, whatever characters the arguments hold
WrittenLineHasSixteenFields ==
    Recorded
    => /\ RecordWritten
       /\ WellFormedLine(RecordText)

\* C30: the path of the record of create, update and delete is the target
\* file path, and the path of the record of a send is the resolved URL
PathOfRecord ==
    /\ (Recorded /\ LastCommand \in {<<"c", "r", "e", "a", "t", "e">>, <<"u", "p", "d", "a", "t", "e">>, <<"d", "e", "l", "e", "t", "e">>})
       => last.res.entry.path = LastPath
    /\ (Recorded /\ WellFormedRequest)
       => last.res.entry.path = ResolvedURL

\* ------------------------------------------------------------ exit paths
\* C31: on every exit path once the log file has been opened, the handle of
\* the log file is closed when the process ends, and the read-only handle
\* of the scan is never left open
HandlesClosed ==
    /\ last.handles.peek # "open"
    /\ (last.res.exit # "none" /\ last.res.opened) => last.handles.handle = "closed"

HandlesClosedSeen ==
    /\ last.res.exit = "panic"
    /\ last.res.opened
    /\ last.handles.handle = "closed"
    /\ last.handles.peek = "closed"

\* C35: a fatal invocation (missing arguments, unrecognized activity,
\* unresolvable execute command) leaves the log file as it was before the
\* invocation, in append mode and in overwrite mode, and does not create it
FatalLeavesLog ==
    (last.res.exit = "panic" /\ last.res.opened)
    => last.res.log = last.logBefore

\* what the collaborators may answer during an invocation
Envs ==
    [writeErr : BOOLEAN, proc : {"exited", "start_failed", "wait_failed"},
     net : Answered \cup {"fail"}]

\* the last invocation with other answers of the collaborators
RerunIn(env) ==
    main(last.logBefore, last.fsBefore, last.n, last.overwrite, last.args, env)

\* the last invocation had a command and could not open its log file
LogOpenFails ==
    /\ last.res.exit # "none"
    /\ last.args # <<>>
    /\ OpenLog(last.logBefore, last.overwrite).err

\* C36: when the log file cannot be opened or created the invocation aborts
\* before the activity: no path changes, the record holds nothing of an
\* activity, and no collaborator is consulted, their answers being
\* indifferent
LogOpenFailureAborts ==
    LogOpenFails
    => /\ last.res.exit = "panic"
       /\ ~last.res.opened
       /\ last.res.fs = last.fsBefore
       /\ last.res.log = last.logBefore
       /\ last.res.written = <<>>
       /\ last.res.entry.status = <<>>
       /\ last.res.entry.processId = currentProcessId
       /\ \A env \in Envs : RerunIn(env) = last.res

LogOpenFailureSeen ==
    /\ LogOpenFails
    /\ LastIs(<<"c", "r", "e", "a", "t", "e">>)
    /\ last.fsBefore[LastPath].kind = "absent"
    /\ last.fsBefore[LastPath].access
    /\ last.res.exit = "panic"
    /\ last.res.fs[LastPath].kind = "absent"

\* C37: in append mode the new record starts a line: it is the first thing
\* in the file or the byte before it is a newline
RecordOnOwnLine ==
    (Recorded /\ last.logBefore.kind = "file" /\ ~last.overwrite)
    => /\ Len(last.res.log.data) = Len(last.logBefore.data) + Len(LogLine(last.res.entry))
       /\ \/ last.logBefore.data = <<>>
          \/ last.res.log.data[Len(last.logBefore.data)] = NL

\* ---------------------------------------------------------- resolved URL
\* url.Parse accepts the destination of the last invocation, a send
Accepted ==
    /\ LastIsSend
    /\ Recorded
    /\ isHttp(SendProtocol)
    /\ ~UrlParse(SendDest).err

\* where the host component of the destination starts: after the user
\* information of its authority
HostStart ==
    LastIndexByte(CutAt(CutAt(CutAt(SendDest, "#"), "?"), "/"), AT) + 1

\* where the host and port of the destination end
HostPortEnd ==
    Len(CutAt(CutAt(CutAt(SendDest, "#"), "?"), "/"))

\* the destination with the port after its host component, in the place of
\* a port it carries
WithPort ==
    SubSeq(SendDest, 1, HostStart - 1)
    \o UrlParse(SendDest).hostname \o <<":">> \o Itoa(SendPort)
    \o SubSeq(SendDest, HostPortEnd + 1, Len(SendDest))

\* C34: for every destination send accepts, the recorded path is the
\* protocol, "://" and the destination with the port immediately after the
\* host component and nowhere else, also when the host text occurs earlier
\* in the destination or the destination carries a port
PortAfterHost ==
    Accepted => last.res.entry.path = SendProtocol \o <<":", "/", "/">> \o WithPort

\* ------------------------------------------------------------- escaping
\* the command string of a command line before escaping: the command word,
\* a space, the arguments joined by spaces; execute is left out
CommandString(args) ==
    IF args[1] = <<"e", "x", "e", "c", "u", "t", "e">>
    THEN args[2] \o <<" ">> \o Join(SubSeq(args, 3, Len(args)), <<" ">>)
    ELSE args[1] \o <<" ">> \o Join(Tail(args), <<" ">>)

\* the invocation res recorded the processCmd of the last invocation
SameProcessCmd(res) ==
    /\ res.exit = "done"
    /\ res.entry.processCmd = last.res.entry.processCmd

\* C38: two different command strings never give the same escaped
\* processCmd: a newline and a backslash followed by the letter n stay
\* distinguishable
EscapingReversible ==
    Recorded
    => \A cl \in RecordSuite :
           (cl.args # <<>> /\ SameProcessCmd(Rerun(cl.args, last.env.net)))
           => CommandString(cl.args) = CommandString(last.args)

\* ------------------------------------------------------------- short rows
\* C32: decoding a row of fewer than 16 fields gives no record and returns
\* to its caller: it never aborts the program
ShortRowReturns ==
    (codec.pc \in {"loaded", "aborted"} /\ Len(codec.row.fields) < 16)
    => codec.pc # "aborted"

\* ------------------------------------------------------------ termination
\* C33: the blocking execute call eventually returns, however much the
\* spawned process writes and however long its lines are: the process,
\* which exits on its own once it has written its output, never stays
\* blocked on a full pipe
ExecuteReturns ==
    <>(drain.pc = "returned")

====
